---- MODULE Spec2Model ----
(***************************************************************************)
(* A model of rust-metaflac: the block codec (src/src/block.rs) and the    *)
(* tag container with its save / write_to_path strategy (src/src/tag.rs).  *)
(* Files and streams are sequences of bytes (0..255); strings are the      *)
(* sequences of their ASCII codes.                                         *)
(***************************************************************************)
EXTENDS Integers, Sequences, FiniteSets, TLC

VARIABLES
    blocks,     \* Tag.blocks: the tag's block list
    length,     \* Tag.length: the remembered metadata size
    path,       \* Tag.path: the remembered path, or NoPath
    fs,         \* the file system: path -> bytes of the file, or NoFile
    orig,       \* history: the file system, or the parts of the stream, at the start
    io,         \* the in-memory stream of read_from / write_to: [bytes, pos]
    rd,         \* the value the last read of io, or Block::write_to, returned
    iter,       \* the Blocks iterator over io
    sink,       \* the writer of Block::write_to: runs of bytes and counted zeroes
    ids,        \* history: for each block of blocks, the operation that inserted it
    last        \* history: the last operation, its inputs, outcome and pre-state

vars == <<blocks, length, path, fs, orig, io, rd, iter, sink, ids, last>>

----------------------------------------------------------------------------
(* Bounds of the model.                                                    *)

\* the mutators stop growing the block list at this many blocks
MaxBlocks == 3

\* the number of tag operations of one behaviour
MaxOps == 4

\* the number of operations on a tag with a file system
MaxFileOps == 4

\* the number of blocks of a stream handed to read_from
MaxStreamBlocks == 3

\* the number of operations on the comments of a tag
MaxVorbisOps == 3

----------------------------------------------------------------------------
(* Bytes, integers and results.                                            *)

\* the padding written by a full rewrite
padding_size == 1024

\* the width of the length field of a block header: 3 bytes
LenModulus == 16777216

Ok(v) == [ok |-> TRUE, val |-> v, err |-> "none"]

Err(kind) == [ok |-> FALSE, val |-> <<>>, err |-> kind]

\* n.to_be_bytes() cut to its low nbytes bytes
to_be_bytes(n, nbytes) ==
    [i \in 1..nbytes |-> (n \div (256 ^ (nbytes - i))) % 256]

\* n.to_le_bytes() cut to its low nbytes bytes
to_le_bytes(n, nbytes) ==
    [i \in 1..nbytes |-> (n \div (256 ^ (i - 1))) % 256]

RECURSIVE from_be_bytes(_)
from_be_bytes(bytes) ==
    IF bytes = <<>> THEN 0
    ELSE from_be_bytes(SubSeq(bytes, 1, Len(bytes) - 1)) * 256 + bytes[Len(bytes)]

RECURSIVE from_le_bytes(_)
from_le_bytes(bytes) ==
    IF bytes = <<>> THEN 0
    ELSE bytes[1] + 256 * from_le_bytes(Tail(bytes))

\* bytes[i .. i + n] of a Rust slice, i counted from 0
Slice(bytes, i, n) == SubSeq(bytes, i + 1, i + n)

\* n zero bytes
Zeroes(n) == [i \in 1..n |-> 0]

\* String::from_utf8 accepts the bytes. The texts of the model are ASCII, and
\* the only other byte used in a text is one above 0x7F standing alone, which
\* no UTF-8 text holds.
from_utf8_ok(bytes) == \A i \in 1..Len(bytes) : bytes[i] < 128

\* keys taken as they are written
to_ascii_uppercase_not(s) == s

\* str::to_ascii_uppercase
to_ascii_uppercase(s) ==
    [i \in 1..Len(s) |-> IF s[i] >= 97 /\ s[i] <= 122 THEN s[i] - 32 ELSE s[i]]

Range(s) == {s[i] : i \in 1..Len(s)}

\* the elements of s at the indices in keep, in order
RECURSIVE Retain(_, _, _)
Retain(s, keep, i) ==
    IF i > Len(s) THEN <<>>
    ELSE (IF i \in keep THEN <<s[i]>> ELSE <<>>) \o Retain(s, keep, i + 1)

\* the format identifier b"fLaC"
fLaC == <<102, 76, 97, 67>>

\* b"ID3"
ID3 == <<73, 68, 51>>

----------------------------------------------------------------------------
(* BlockType.                                                              *)

KnownTypes ==
    <<"StreamInfo", "Padding", "Application", "SeekTable", "VorbisComment",
      "CueSheet", "Picture">>

BlockType(kind) == [t |-> kind, n |-> 0]

UnknownType(n) == [t |-> "Unknown", n |-> n]

BlockType_to_u8(bt) ==
    IF bt.t = "Unknown" THEN bt.n
    ELSE (CHOOSE i \in 1..Len(KnownTypes) : KnownTypes[i] = bt.t) - 1

BlockType_from_u8(n) ==
    IF n <= 6 THEN BlockType(KnownTypes[n + 1]) ELSE UnknownType(n)

block_type(b) ==
    IF b.kind = "Unknown" THEN UnknownType(b.code) ELSE BlockType(b.kind)

----------------------------------------------------------------------------
(* StreamInfo.                                                             *)

\* a u64 too wide for the integers of the checker, in two limbs: the value is
\* hi * 2^24 + lo, with lo below 2^24
u64(hi, lo) == [hi |-> hi, lo |-> lo]

StreamInfo_new ==
    [kind |-> "StreamInfo", min_block_size |-> 0, max_block_size |-> 0,
     min_frame_size |-> 0, max_frame_size |-> 0, sample_rate |-> 0,
     num_channels |-> 0, bits_per_sample |-> 0, total_samples |-> u64(0, 0),
     md5 |-> <<>>]

\* mutant of the channel field: num_channels stored as it is, not less one
StreamInfo_channel_bits_plain(s) == (s.num_channels % 8) * 2

\* the channel bits of the 13th byte: ((num_channels - 1) & 0x7) << 1
StreamInfo_channel_bits(s) == (((s.num_channels + 255) % 256) % 8) * 2

\* bits 32..35 of total_samples are bits 8..11 of its high limb, its low 32
\* bits the low byte of the high limb and the low limb
StreamInfo_to_bytes(s) ==
    to_be_bytes(s.min_block_size, 2)
    \o to_be_bytes(s.max_block_size, 2)
    \o to_be_bytes(s.min_frame_size, 3)
    \o to_be_bytes(s.max_frame_size, 3)
    \o to_be_bytes((s.sample_rate \div 16) % 65536, 2)
    \o << ((s.sample_rate % 16) * 16
           + StreamInfo_channel_bits(s)
           + ((((s.bits_per_sample + 255) % 256) \div 16) % 2)) % 256 >>
    \o << (((s.bits_per_sample + 255) % 256) % 16) * 16
          + ((s.total_samples.hi \div 256) % 16) >>
    \o <<s.total_samples.hi % 256>> \o to_be_bytes(s.total_samples.lo, 3)
    \o s.md5

\* num_channels - 1 and bits_per_sample - 1 are u8 subtractions: a build
\* with overflow checks panics on them when the field is 0
StreamInfo_to_bytes_overflows(s) == s.num_channels = 0 \/ s.bits_per_sample = 0

StreamInfo_from_bytes(bytes) ==
    IF Len(bytes) < 34 THEN Err("panic")
    ELSE
        LET scb == bytes[13]
        IN  Ok([kind |-> "StreamInfo",
                min_block_size |-> from_be_bytes(Slice(bytes, 0, 2)),
                max_block_size |-> from_be_bytes(Slice(bytes, 2, 2)),
                min_frame_size |-> from_be_bytes(Slice(bytes, 4, 3)),
                max_frame_size |-> from_be_bytes(Slice(bytes, 7, 3)),
                sample_rate |-> from_be_bytes(Slice(bytes, 10, 2)) * 16 + (scb \div 16),
                num_channels |-> ((scb \div 2) % 8) + 1,
                bits_per_sample |-> (scb % 2) * 16 + (bytes[14] \div 16) + 1,
                total_samples |-> u64((bytes[14] % 16) * 256 + bytes[15],
                                      from_be_bytes(Slice(bytes, 15, 3))),
                md5 |-> Slice(bytes, 18, 16)])

----------------------------------------------------------------------------
(* Application.                                                            *)

Application_new == [kind |-> "Application", id |-> <<>>, data |-> <<>>]

Application_to_bytes(a) == a.id \o a.data

Application_from_bytes(bytes) ==
    IF Len(bytes) < 4 THEN Err("panic")
    ELSE Ok([kind |-> "Application", id |-> Slice(bytes, 0, 4),
             data |-> SubSeq(bytes, 5, Len(bytes))])

----------------------------------------------------------------------------
(* SeekTable.                                                              *)

SeekPoint_to_bytes(p) ==
    to_be_bytes(0, 4) \o to_be_bytes(p.sample_number, 4)
    \o to_be_bytes(0, 4) \o to_be_bytes(p.offset, 4)
    \o to_be_bytes(p.num_samples, 2)

SeekPoint_from_bytes(bytes) ==
    [sample_number |-> from_be_bytes(Slice(bytes, 0, 8)),
     offset |-> from_be_bytes(Slice(bytes, 8, 8)),
     num_samples |-> from_be_bytes(Slice(bytes, 16, 2))]

RECURSIVE SeekTable_points_to_bytes(_)
SeekTable_points_to_bytes(points) ==
    IF points = <<>> THEN <<>>
    ELSE SeekPoint_to_bytes(Head(points)) \o SeekTable_points_to_bytes(Tail(points))

SeekTable_to_bytes(t) == SeekTable_points_to_bytes(t.seekpoints)

SeekTable_from_bytes(bytes) ==
    Ok([kind |-> "SeekTable",
        seekpoints |-> [k \in 1..(Len(bytes) \div 18) |->
                           SeekPoint_from_bytes(Slice(bytes, (k - 1) * 18, 18))]])

----------------------------------------------------------------------------
(* VorbisComment. comments is the HashMap: a function from the keys it     *)
(* holds to their lists of values.                                         *)

VorbisComment_new == [kind |-> "VorbisComment", vendor_string |-> <<>>, comments |-> <<>>]

\* HashMap::insert
MapInsert(m, key, v) ==
    [k \in (DOMAIN m) \cup {key} |-> IF k = key THEN v ELSE m[k]]

\* HashMap::remove
MapRemove(m, key) == [k \in (DOMAIN m) \ {key} |-> m[k]]

RECURSIVE SetToSeq(_)
SetToSeq(S) ==
    IF S = {} THEN <<>>
    ELSE LET x == CHOOSE y \in S : TRUE IN <<x>> \o SetToSeq(S \ {x})

\* The order in which the HashMap is iterated is not defined: ord is the
\* order this one iteration takes (keys it does not name come last).
IterKeys(m, ord) ==
    SelectSeq(ord, LAMBDA k : k \in DOMAIN m) \o SetToSeq((DOMAIN m) \ Range(ord))

RECURSIVE VorbisComment_list_to_bytes(_, _)
VorbisComment_list_to_bytes(key, list) ==
    IF list = <<>> THEN <<>>
    ELSE LET comment == key \o <<61>> \o Head(list)
         IN  to_le_bytes(Len(comment), 4) \o comment
             \o VorbisComment_list_to_bytes(key, Tail(list))

RECURSIVE VorbisComment_entries_to_bytes(_, _)
VorbisComment_entries_to_bytes(m, keys) ==
    IF keys = <<>> THEN <<>>
    ELSE VorbisComment_list_to_bytes(Head(keys), m[Head(keys)])
         \o VorbisComment_entries_to_bytes(m, Tail(keys))

RECURSIVE VorbisComment_num_values(_, _)
VorbisComment_num_values(m, keys) ==
    IF keys = <<>> THEN 0
    ELSE Len(m[Head(keys)]) + VorbisComment_num_values(m, Tail(keys))

VorbisComment_to_bytes(v, ord) ==
    LET keys == IterKeys(v.comments, ord)
    IN  to_le_bytes(Len(v.vendor_string), 4) \o v.vendor_string
        \o to_le_bytes(VorbisComment_num_values(v.comments, keys), 4)
        \o VorbisComment_entries_to_bytes(v.comments, keys)

\* the index of the first '=' of s, 0 if it has none
FirstEq(s) ==
    IF \E i \in 1..Len(s) : s[i] = 61
    THEN CHOOSE i \in 1..Len(s) : s[i] = 61 /\ \A j \in 1..(i - 1) : s[j] # 61
    ELSE 0

\* the loop of from_bytes: n comments are still to be read at offset i
RECURSIVE VorbisComment_read_comments(_, _, _, _)
VorbisComment_read_comments(bytes, i, n, m) ==
    IF n = 0 THEN Ok(m)
    ELSE IF i + 4 > Len(bytes) THEN Err("panic")
    ELSE
        LET comment_length == from_le_bytes(Slice(bytes, i, 4))
            comments == Slice(bytes, i + 4, comment_length)
            eq == FirstEq(comments)
            key == to_ascii_uppercase(SubSeq(comments, 1, eq - 1))
            value == SubSeq(comments, eq + 1, Len(comments))
        IN  IF i + 4 + comment_length > Len(bytes) THEN Err("panic")
            ELSE IF ~from_utf8_ok(comments) THEN Err("StringDecoding")
            ELSE IF eq = 0 THEN Err("panic")
            ELSE VorbisComment_read_comments(bytes, i + 4 + comment_length, n - 1,
                    MapInsert(m, key,
                        (IF key \in DOMAIN m THEN m[key] ELSE <<>>) \o <<value>>))

VorbisComment_from_bytes(bytes) ==
    IF Len(bytes) < 4 THEN Err("panic")
    ELSE
        LET vendor_length == from_le_bytes(Slice(bytes, 0, 4))
            vendor == Slice(bytes, 4, vendor_length)
            i == 4 + vendor_length
        IN  IF i > Len(bytes) THEN Err("panic")
            ELSE IF ~from_utf8_ok(vendor) THEN Err("StringDecoding")
            ELSE IF i + 4 > Len(bytes) THEN Err("panic")
            ELSE
                LET r == VorbisComment_read_comments(bytes, i + 4,
                            from_le_bytes(Slice(bytes, i, 4)), <<>>)
                IN  IF r.ok
                    THEN Ok([kind |-> "VorbisComment", vendor_string |-> vendor,
                             comments |-> r.val])
                    ELSE r

\* set that keeps the previous values of the key in front of the new ones
VorbisComment_set_extend(v, key, values) ==
    [v EXCEPT !.comments =
        MapInsert(@, key, (IF key \in DOMAIN @ THEN @[key] ELSE <<>>) \o values)]

\* VorbisComment::set
VorbisComment_set(v, key, values) ==
    [v EXCEPT !.comments = MapInsert(MapRemove(v.comments, key), key, values)]

\* VorbisComment::remove
VorbisComment_remove(v, key) == [v EXCEPT !.comments = MapRemove(v.comments, key)]

----------------------------------------------------------------------------
(* Picture.                                                                *)

PictureTypes ==
    <<"Other", "Icon", "OtherIcon", "CoverFront", "CoverBack", "Leaflet",
      "Media", "LeadArtist", "Artist", "Conductor", "Band", "Composer",
      "Lyricist", "RecordingLocation", "DuringRecording", "DuringPerformance",
      "ScreenCapture", "BrightFish", "Illustration", "BandLogo", "PublisherLogo">>

\* picture_type as u32
PictureType_to_u32(t) == (CHOOSE i \in 1..Len(PictureTypes) : PictureTypes[i] = t) - 1

\* Some(type) is Ok(type), None is Err
PictureType_from_u32(n) ==
    IF n < Len(PictureTypes) THEN Ok(PictureTypes[n + 1]) ELSE Err("InvalidInput")

Picture_new ==
    [kind |-> "Picture", picture_type |-> "Other", mime_type |-> <<>>,
     description |-> <<>>, width |-> 0, height |-> 0, depth |-> 0,
     num_colors |-> 0, data |-> <<>>]

Picture_to_bytes(p) ==
    to_be_bytes(PictureType_to_u32(p.picture_type), 4)
    \o to_be_bytes(Len(p.mime_type), 4) \o p.mime_type
    \o to_be_bytes(Len(p.description), 4) \o p.description
    \o to_be_bytes(p.width, 4) \o to_be_bytes(p.height, 4)
    \o to_be_bytes(p.depth, 4) \o to_be_bytes(p.num_colors, 4)
    \o to_be_bytes(Len(p.data), 4) \o p.data

Picture_from_bytes(bytes) ==
    IF Len(bytes) < 4 THEN Err("panic")
    ELSE
    LET pt == PictureType_from_u32(from_be_bytes(Slice(bytes, 0, 4)))
    IN
    IF ~pt.ok THEN Err("InvalidInput")
    ELSE IF Len(bytes) < 8 THEN Err("panic")
    ELSE
    LET mime_length == from_be_bytes(Slice(bytes, 4, 4))
        i1 == 8 + mime_length
    IN
    IF i1 > Len(bytes) THEN Err("panic")
    ELSE IF ~from_utf8_ok(Slice(bytes, 8, mime_length)) THEN Err("StringDecoding")
    ELSE IF i1 + 4 > Len(bytes) THEN Err("panic")
    ELSE
    LET description_length == from_be_bytes(Slice(bytes, i1, 4))
        i2 == i1 + 4 + description_length
    IN
    IF i2 > Len(bytes) THEN Err("panic")
    ELSE IF ~from_utf8_ok(Slice(bytes, i1 + 4, description_length))
         THEN Err("StringDecoding")
    ELSE IF i2 + 20 > Len(bytes) THEN Err("panic")
    ELSE
    LET data_length == from_be_bytes(Slice(bytes, i2 + 16, 4))
    IN
    IF i2 + 20 + data_length > Len(bytes) THEN Err("panic")
    ELSE Ok([kind |-> "Picture", picture_type |-> pt.val,
             mime_type |-> Slice(bytes, 8, mime_length),
             description |-> Slice(bytes, i1 + 4, description_length),
             width |-> from_be_bytes(Slice(bytes, i2, 4)),
             height |-> from_be_bytes(Slice(bytes, i2 + 4, 4)),
             depth |-> from_be_bytes(Slice(bytes, i2 + 8, 4)),
             num_colors |-> from_be_bytes(Slice(bytes, i2 + 12, 4)),
             data |-> Slice(bytes, i2 + 20, data_length)])

----------------------------------------------------------------------------
(* CueSheet. The u64 fields are kept below 2^31 in the model: their high   *)
(* four bytes are zero.                                                    *)

CueSheet_new ==
    [kind |-> "CueSheet", catalog_num |-> <<>>, num_leadin |-> 0, is_cd |-> TRUE,
     tracks |-> <<>>]

CueSheetTrack_new ==
    [offset |-> 0, number |-> 0, isrc |-> <<>>, is_audio |-> TRUE,
     pre_emphasis |-> FALSE, indices |-> <<>>]

u64_to_be_bytes(n) == Zeroes(4) \o to_be_bytes(n, 4)

RECURSIVE CueSheet_indices_to_bytes(_)
CueSheet_indices_to_bytes(indices) ==
    IF indices = <<>> THEN <<>>
    ELSE u64_to_be_bytes(Head(indices).offset) \o <<Head(indices).point_num>>
         \o Zeroes(3) \o CueSheet_indices_to_bytes(Tail(indices))

RECURSIVE CueSheet_tracks_to_bytes(_)
CueSheet_tracks_to_bytes(tracks) ==
    IF tracks = <<>> THEN <<>>
    ELSE LET track == Head(tracks)
         IN  u64_to_be_bytes(track.offset) \o <<track.number>>
             \o track.isrc \o Zeroes(12 - Len(track.isrc))
             \o << (IF track.is_audio THEN 0 ELSE 128)
                   + (IF track.pre_emphasis THEN 64 ELSE 0) >>
             \o Zeroes(13) \o <<Len(track.indices) % 256>>
             \o CueSheet_indices_to_bytes(track.indices)
             \o CueSheet_tracks_to_bytes(Tail(tracks))

\* the two assert! of to_bytes
CueSheet_to_bytes_asserts(c) ==
    /\ Len(c.catalog_num) <= 128
    /\ \A k \in 1..Len(c.tracks) : Len(c.tracks[k].isrc) <= 12

CueSheet_to_bytes(c) ==
    c.catalog_num \o Zeroes(128 - Len(c.catalog_num))
    \o u64_to_be_bytes(c.num_leadin)
    \o <<IF c.is_cd THEN 128 ELSE 0>>
    \o Zeroes(258) \o <<Len(c.tracks) % 256>>
    \o CueSheet_tracks_to_bytes(c.tracks)

\* the inner loop of from_bytes: n indices are still to be read at offset i
RECURSIVE CueSheet_read_indices(_, _, _, _)
CueSheet_read_indices(bytes, i, n, acc) ==
    IF n = 0 THEN Ok([i |-> i, indices |-> acc])
    ELSE IF i + 9 > Len(bytes) THEN Err("panic")
    ELSE CueSheet_read_indices(bytes, i + 12, n - 1,
            Append(acc, [offset |-> from_be_bytes(Slice(bytes, i, 8)),
                         point_num |-> bytes[i + 9]]))

\* the outer loop of from_bytes: n tracks are still to be read at offset i
RECURSIVE CueSheet_read_tracks(_, _, _, _)
CueSheet_read_tracks(bytes, i, n, acc) ==
    IF n = 0 THEN Ok(acc)
    ELSE IF i + 21 > Len(bytes) THEN Err("panic")
    ELSE IF ~from_utf8_ok(Slice(bytes, i + 9, 12)) THEN Err("StringDecoding")
    ELSE IF i + 36 > Len(bytes) THEN Err("panic")
    ELSE
        LET flags == bytes[i + 22]
            r == CueSheet_read_indices(bytes, i + 36, bytes[i + 36], <<>>)
        IN  IF ~r.ok THEN r
            ELSE CueSheet_read_tracks(bytes, r.val.i, n - 1,
                    Append(acc, [offset |-> from_be_bytes(Slice(bytes, i, 8)),
                                 number |-> bytes[i + 9],
                                 isrc |-> Slice(bytes, i + 9, 12),
                                 is_audio |-> (flags \div 128) % 2 = 0,
                                 pre_emphasis |-> (flags \div 64) % 2 = 1,
                                 indices |-> r.val.indices]))

CueSheet_from_bytes(bytes) ==
    IF Len(bytes) < 128 THEN Err("panic")
    ELSE IF ~from_utf8_ok(Slice(bytes, 0, 128)) THEN Err("StringDecoding")
    ELSE IF Len(bytes) < 396 THEN Err("panic")
    ELSE
        LET r == CueSheet_read_tracks(bytes, 396, bytes[396], <<>>)
        IN  IF ~r.ok THEN r
            ELSE Ok([kind |-> "CueSheet", catalog_num |-> Slice(bytes, 0, 128),
                     num_leadin |-> from_be_bytes(Slice(bytes, 128, 8)),
                     is_cd |-> (bytes[137] \div 128) % 2 = 1,
                     tracks |-> r.val])

----------------------------------------------------------------------------
(* Block: the envelope. A block is a record whose kind names its variant.  *)

Padding(size) == [kind |-> "Padding", size |-> size]

Unknown(code, data) == [kind |-> "Unknown", code |-> code, data |-> data]

\* the payload bytes of write_to; ord is the iteration order of a comment map
Block_contents(b, ord) ==
    CASE b.kind = "StreamInfo" -> StreamInfo_to_bytes(b)
      [] b.kind = "Application" -> Application_to_bytes(b)
      [] b.kind = "CueSheet" -> CueSheet_to_bytes(b)
      [] b.kind = "Padding" -> Zeroes(b.size)
      [] b.kind = "Picture" -> Picture_to_bytes(b)
      [] b.kind = "SeekTable" -> SeekTable_to_bytes(b)
      [] b.kind = "VorbisComment" -> VorbisComment_to_bytes(b, ord)
      [] b.kind = "Unknown" -> b.data

\* content_len of write_to
Block_content_len(b) ==
    IF b.kind = "Padding" THEN b.size ELSE Len(Block_contents(b, <<>>))

\* the header byte of write_to: the is-last flag and the low 7 bits of the type
Block_header_byte(b, is_last) ==
    (IF is_last THEN 128 ELSE 0) + (BlockType_to_u8(block_type(b)) % 128)

\* the bytes Block::write_to writes
Block_write_to(b, is_last, ord) ==
    <<Block_header_byte(b, is_last)>>
    \o to_be_bytes(Block_content_len(b) % LenModulus, 3)
    \o Block_contents(b, ord)

\* the length Block::write_to returns
Block_write_len(b) == Block_content_len(b) + 4

\* the bytes Block::write_to writes ahead of the zeroes of a Padding block: the
\* header, and the contents of a block of another type
Block_write_head(b, is_last, ord) ==
    <<Block_header_byte(b, is_last)>>
    \o to_be_bytes(Block_content_len(b) % LenModulus, 3)
    \o (IF b.kind = "Padding" THEN <<>> ELSE Block_contents(b, ord))

\* the number of zeroes the loop of Block::write_to writes for a Padding block
Block_write_zeroes(b) == IF b.kind = "Padding" THEN b.size ELSE 0

\* write_to panics: an assert! of CueSheet::to_bytes, or (checked is TRUE for
\* a build with overflow checks) a u8 underflow of StreamInfo::to_bytes
Block_write_panics(b, checked) ==
    \/ b.kind = "CueSheet" /\ ~CueSheet_to_bytes_asserts(b)
    \/ b.kind = "StreamInfo" /\ checked /\ StreamInfo_to_bytes_overflows(b)

\* the dispatch of read_from on the block type
Block_from_bytes(bt, code, len, data) ==
    CASE bt.t = "StreamInfo" -> StreamInfo_from_bytes(data)
      [] bt.t = "Padding" -> Ok(Padding(len))
      [] bt.t = "Application" -> Application_from_bytes(data)
      [] bt.t = "SeekTable" -> SeekTable_from_bytes(data)
      [] bt.t = "VorbisComment" -> VorbisComment_from_bytes(data)
      [] bt.t = "Picture" -> Picture_from_bytes(data)
      [] bt.t = "CueSheet" -> CueSheet_from_bytes(data)
      [] bt.t = "Unknown" -> Ok(Unknown(code, data))

\* the value read_from returns once the payload is decoded into r
Block_read_result(byte, len, end, r) ==
    IF ~r.ok THEN r
    ELSE Ok([is_last |-> byte >= 128, length |-> len + 4, block |-> r.val, pos |-> end])

\* read_from after the header: the payload is the bytes up to offset end
Block_read_payload(bytes, pos, byte, len, end) ==
    Block_read_result(byte, len, end,
        Block_from_bytes(BlockType_from_u8(byte % 128), byte % 128, len,
                         SubSeq(bytes, pos + 5, end)))

\* Block::read_from on the stream bytes, pos bytes of it consumed. take(length)
\* with read_to_end stops at the end of the stream without an error.
Block_read_from(bytes, pos) ==
    IF pos + 1 > Len(bytes) THEN Err("Io")
    ELSE IF pos + 4 > Len(bytes) THEN Err("Io")
    ELSE
        LET len == from_be_bytes(Slice(bytes, pos + 1, 3))
        IN  Block_read_payload(bytes, pos, bytes[pos + 1], len,
                IF pos + 4 + len <= Len(bytes) THEN pos + 4 + len ELSE Len(bytes))

----------------------------------------------------------------------------
(* read_ident and the Blocks iterator.                                     *)

\* read_ident taking any four bytes for the identifier
read_ident_any(bytes, pos) ==
    IF pos + 4 > Len(bytes) THEN Err("Io") ELSE Ok(pos + 4)

\* read_ident on the stream bytes, pos bytes of it consumed: Ok(new position)
read_ident(bytes, pos) ==
    IF pos + 4 > Len(bytes) THEN Err("Io")
    ELSE
        LET ident == Slice(bytes, pos, 4)
        IN  IF SubSeq(ident, 1, 3) = ID3 /\ ident[4] \in {2, 3, 4}
            THEN
                IF pos + 10 > Len(bytes) THEN Err("Io")
                ELSE
                    LET header_tail == Slice(bytes, pos + 4, 6)
                        has_footer == (header_tail[2] \div 16) % 2 = 1
                        size == (header_tail[3] % 128) * 2097152
                                + (header_tail[4] % 128) * 16384
                                + (header_tail[5] % 128) * 128
                                + (header_tail[6] % 128)
                        skip == IF has_footer THEN size + 10 ELSE size
                        at == IF pos + 10 + skip <= Len(bytes)
                              THEN pos + 10 + skip ELSE Len(bytes)
                    IN  IF at + 4 > Len(bytes) THEN Err("Io")
                        ELSE IF Slice(bytes, at, 4) = fLaC THEN Ok(at + 4)
                        ELSE Err("InvalidInput")
            ELSE IF ident = fLaC THEN Ok(pos + 4)
            ELSE Err("InvalidInput")

\* Blocks::new
Blocks_new(pos) == [ident_read |-> FALSE, finished |-> FALSE, pos |-> pos]

NoItem == [some |-> FALSE, res |-> Err("none")]

Item(res) == [some |-> TRUE, res |-> res]

\* the match of Blocks::next with the is-last flag of the block ignored
Blocks_yield_unfinished(pos, r) ==
    IF r.ok
    THEN [it |-> [ident_read |-> TRUE, finished |-> FALSE, pos |-> r.val.pos],
          item |-> Item(r)]
    ELSE [it |-> [ident_read |-> TRUE, finished |-> TRUE, pos |-> pos],
          item |-> Item(r)]

\* the match of Blocks::next on the result r of Block::read_from at pos
Blocks_yield(pos, r) ==
    IF r.ok
    THEN [it |-> [ident_read |-> TRUE, finished |-> r.val.is_last, pos |-> r.val.pos],
          item |-> Item(r)]
    ELSE [it |-> [ident_read |-> TRUE, finished |-> TRUE, pos |-> pos],
          item |-> Item(r)]

\* Blocks::next once the identifier is dealt with: id is Ok(position) or the
\* error of read_ident
Blocks_after_ident(bytes, it, id) ==
    IF ~id.ok
    THEN [it |-> [ident_read |-> TRUE, finished |-> TRUE, pos |-> it.pos],
          item |-> Item(id)]
    ELSE IF ~it.finished THEN Blocks_yield(id.val, Block_read_from(bytes, id.val))
    ELSE [it |-> [it EXCEPT !.ident_read = TRUE], item |-> NoItem]

\* next reading the identifier at every call
Blocks_next_reread(bytes, it) ==
    Blocks_after_ident(bytes, it, read_ident(bytes, it.pos))

\* Blocks::next: the iterator afterwards and the item it yields
Blocks_next(bytes, it) ==
    Blocks_after_ident(bytes, it,
        IF it.ident_read THEN Ok(it.pos) ELSE read_ident(bytes, it.pos))

----------------------------------------------------------------------------
(* Tag: reading and writing streams.                                       *)

RECURSIVE Tag_read_loop(_, _, _, _)

\* the loop body that ends the loop at an error and keeps the blocks read
Tag_read_item_partial(bytes, bl, len, n) ==
    IF ~n.item.some \/ ~n.item.res.ok
    THEN Ok([blocks |-> bl, length |-> len, pos |-> n.it.pos])
    ELSE Tag_read_loop(bytes, n.it, Append(bl, n.item.res.val.block),
                       len + n.item.res.val.length)

\* the body of the for loop of Tag::read_from: n is what next() gave
Tag_read_item(bytes, bl, len, n) ==
    IF ~n.item.some THEN Ok([blocks |-> bl, length |-> len, pos |-> n.it.pos])
    ELSE IF ~n.item.res.ok THEN n.item.res
    ELSE Tag_read_loop(bytes, n.it, Append(bl, n.item.res.val.block),
                       len + n.item.res.val.length)

\* the for loop of Tag::read_from over the iterator
Tag_read_loop(bytes, it, bl, len) ==
    Tag_read_item(bytes, bl, len, Blocks_next(bytes, it))

\* Tag::read_from on the stream bytes, pos bytes of it consumed
Tag_read_from(bytes, pos) == Tag_read_loop(bytes, Blocks_new(pos), <<>>, 0)

\* the bytes the loop of Tag::write_to writes for blocks i .. stop of bl
RECURSIVE Tag_blocks_bytes(_, _, _, _)
Tag_blocks_bytes(bl, ord, i, stop) ==
    IF i > stop THEN <<>>
    ELSE Block_write_to(bl[i], i = Len(bl), ord)
         \o Tag_blocks_bytes(bl, ord, i + 1, stop)

\* the bytes Tag::write_to writes
Tag_write_to(bl, ord) == fLaC \o Tag_blocks_bytes(bl, ord, 1, Len(bl))

\* the sum of the lengths Block::write_to returns for the blocks of bl
RECURSIVE Tag_blocks_len(_)
Tag_blocks_len(bl) ==
    IF bl = <<>> THEN 0 ELSE Block_write_len(Head(bl)) + Tag_blocks_len(Tail(bl))

\* the bytes of the blocks of bl, each written with is_last false, as
\* write_to_path collects them in block_bytes
RECURSIVE block_bytes(_, _)
block_bytes(bl, ord) ==
    IF bl = <<>> THEN <<>>
    ELSE Block_write_to(Head(bl), FALSE, ord) \o block_bytes(Tail(bl), ord)

\* the while loop of skip_metadata at offset pos
RECURSIVE skip_metadata_loop(_, _)
skip_metadata_loop(bytes, pos) ==
    IF pos + 4 > Len(bytes) THEN bytes
    ELSE
        LET more == bytes[pos + 1] < 128
            len == from_be_bytes(Slice(bytes, pos + 1, 3))
        IN  IF more THEN skip_metadata_loop(bytes, pos + 4 + len)
            ELSE SubSeq(bytes, pos + 4 + len + 1, Len(bytes))

\* Tag::skip_metadata on a file
skip_metadata(bytes) ==
    IF Len(bytes) < 4 THEN bytes
    ELSE IF Slice(bytes, 0, 4) = fLaC THEN skip_metadata_loop(bytes, 4)
    ELSE bytes

----------------------------------------------------------------------------
(* Tag: the block list and its mutators, as functions of the list bl.      *)

\* remove_blocks that stops behind the first block of the type
remove_blocks_first(bl, bt) ==
    Retain(bl, {i \in 1..Len(bl) :
                   block_type(bl[i]) # bt
                   \/ \E j \in 1..(i - 1) : block_type(bl[j]) = bt}, 1)

\* remove_blocks sparing the last block of the type
remove_blocks_keep_last(bl, bt) ==
    Retain(bl, {i \in 1..Len(bl) :
                   block_type(bl[i]) # bt
                   \/ \A j \in (i + 1)..Len(bl) : block_type(bl[j]) # bt}, 1)

\* Tag::remove_blocks
remove_blocks(bl, bt) == SelectSeq(bl, LAMBDA b : block_type(b) # bt)

\* Tag::set_streaminfo
set_streaminfo(bl, s) == <<s>> \o remove_blocks(bl, BlockType("StreamInfo"))

\* push_block without its StreamInfo case
push_block_append(bl, b) == Append(bl, b)

\* Tag::push_block
push_block(bl, b) ==
    IF b.kind = "StreamInfo" THEN set_streaminfo(bl, b) ELSE Append(bl, b)

\* get_blocks
get_blocks(bl, bt) == SelectSeq(bl, LAMBDA b : block_type(b) = bt)

\* the index of the last VorbisComment block of bl, 0 if it has none
vorbis_index_last(bl) ==
    IF \E i \in 1..Len(bl) : bl[i].kind = "VorbisComment"
    THEN CHOOSE i \in 1..Len(bl) :
            /\ bl[i].kind = "VorbisComment"
            /\ \A j \in (i + 1)..Len(bl) : bl[j].kind # "VorbisComment"
    ELSE 0

\* the index of the first VorbisComment block of bl, 0 if it has none
vorbis_index(bl) ==
    IF \E i \in 1..Len(bl) : bl[i].kind = "VorbisComment"
    THEN CHOOSE i \in 1..Len(bl) :
            /\ bl[i].kind = "VorbisComment"
            /\ \A j \in 1..(i - 1) : bl[j].kind # "VorbisComment"
    ELSE 0

\* vorbis_comments_mut that pushes a block whatever the list holds
vorbis_comments_mut_always(bl) == push_block(bl, VorbisComment_new)

\* Tag::vorbis_comments_mut: the list afterwards (the block it returns is the
\* one at vorbis_index of that list)
vorbis_comments_mut(bl) ==
    IF vorbis_index(bl) # 0 THEN bl ELSE push_block(bl, VorbisComment_new)

\* Tag::get_vorbis: None is Err
get_vorbis(bl, key) ==
    LET i == vorbis_index(bl)
        k == to_ascii_uppercase(key)
    IN  IF i = 0 THEN Err("None")
        ELSE IF k \notin DOMAIN bl[i].comments THEN Err("None")
        ELSE Ok(bl[i].comments[k])

\* Tag::set_vorbis
set_vorbis(bl, key, values) ==
    LET m == vorbis_comments_mut(bl)
    IN  [m EXCEPT ![vorbis_index(m)] =
            VorbisComment_set(@, to_ascii_uppercase(key), values)]

\* Tag::remove_vorbis
remove_vorbis(bl, key) ==
    LET m == vorbis_comments_mut(bl)
    IN  [m EXCEPT ![vorbis_index(m)] =
            [@ EXCEPT !.comments = MapRemove(@, to_ascii_uppercase(key))]]

\* remove_pair that leaves a key whose list became empty
VorbisComment_remove_pair_keep_key(v, key, value) ==
    IF key \in DOMAIN v.comments
    THEN [v EXCEPT !.comments[key] = SelectSeq(@, LAMBDA x : x # value)]
    ELSE v

\* VorbisComment::remove_pair
VorbisComment_remove_pair(v, key, value) ==
    LET kept == IF key \in DOMAIN v.comments
                THEN [v EXCEPT !.comments[key] = SelectSeq(@, LAMBDA x : x # value)]
                ELSE v
        num_values == IF key \in DOMAIN kept.comments THEN Len(kept.comments[key])
                      ELSE 0
    IN  IF num_values = 0 THEN VorbisComment_remove(kept, key) ELSE kept

\* Tag::remove_vorbis_pair
remove_vorbis_pair(bl, key, value) ==
    LET m == vorbis_comments_mut(bl)
    IN  [m EXCEPT ![vorbis_index(m)] =
            VorbisComment_remove_pair(@, to_ascii_uppercase(key), value)]

\* Tag::is_candidate on the reader bytes at position pos: the boolean and the
\* position afterwards. read_exact fails on fewer than 4 bytes and the function
\* returns ahead of the seek; the reader is then where read_exact left it: at
\* the end of the bytes (a File, a Cursor of a current library) or where it was
\* (a Cursor of an older library), at_end telling which
is_candidate(bytes, pos, at_end) ==
    IF pos + 4 > Len(bytes)
    THEN [val |-> FALSE, pos |-> IF at_end THEN Len(bytes) ELSE pos]
    ELSE [val |-> SubSeq(bytes, pos + 1, pos + 4) = fLaC, pos |-> (pos + 4) - 4]

\* Tag::pictures
pictures(bl) == SelectSeq(bl, LAMBDA b : b.kind = "Picture")

\* remove_picture_type keeping the first picture of the type
remove_picture_type_keep_first(bl, picture_type) ==
    LET hit == {i \in 1..Len(bl) :
                   bl[i].kind = "Picture" /\ bl[i].picture_type = picture_type}
    IN  Retain(bl, (1..Len(bl)) \ {i \in hit : \E j \in hit : j < i}, 1)

\* Tag::remove_picture_type
remove_picture_type(bl, picture_type) ==
    SelectSeq(bl, LAMBDA b : ~(b.kind = "Picture" /\ b.picture_type = picture_type))

\* Tag::add_picture
add_picture(bl, mime_type, picture_type, data) ==
    push_block(remove_picture_type(bl, picture_type),
               [Picture_new EXCEPT !.mime_type = mime_type,
                                   !.picture_type = picture_type,
                                   !.data = data])

\* Tag::get_streaminfo: None is Err
get_streaminfo(bl) ==
    IF \E i \in 1..Len(bl) : bl[i].kind = "StreamInfo"
    THEN Ok(bl[CHOOSE i \in 1..Len(bl) :
                  /\ bl[i].kind = "StreamInfo"
                  /\ \A j \in 1..(i - 1) : bl[j].kind # "StreamInfo"])
    ELSE Err("None")

----------------------------------------------------------------------------
(* State: one Tag (blocks, length, path), the files, one stream.           *)

NoPath == "none"

Paths == {"a", "b"}

\* the content of a path that holds no file
NoFile == <<-1>>

\* Tag::new
Tag_new == [blocks |-> <<>>, length |-> 0, path |-> NoPath]

\* no stream: the position tells it from the empty stream
NoStream == [bytes |-> <<>>, pos |-> -1]

\* The history of an operation op with input arg that is about to act. si is
\* the StreamInfo most recently pushed or set, pushed tells that push_block
\* was handed a Picture, wrote is the block list whose write_to filled io,
\* home is the path the tag was read from, with the file it held then, for as
\* long as every write of the tag since went to that path and succeeded.
Hist(op, arg) ==
    [op |-> op, arg |-> arg, n |-> last.n + 1, res |-> "ok", mode |-> "none",
     pre |-> [blocks |-> blocks, length |-> length, path |-> path],
     file |-> NoFile, new_length |-> 0, si |-> last.si, pushed |-> last.pushed,
     wrote |-> last.wrote, home |-> last.home]

NoHist ==
    [op |-> "new", arg |-> <<>>, n |-> 0, res |-> "ok", mode |-> "none", pre |-> Tag_new,
     file |-> NoFile, new_length |-> 0, si |-> Padding(0), pushed |-> FALSE,
     wrote |-> [ok |-> FALSE, blocks |-> <<>>],
     home |-> [path |-> NoPath, file |-> NoFile]]

\* the blocks of bl, each carrying the operation that inserted it
Lab(bl, st) == [i \in 1..Len(bl) |-> bl[i] @@ [uid |-> st[i]]]

\* the inserting operations of a labelled list; a block without one is new
Uids(lbl, fresh) ==
    [i \in 1..Len(lbl) |-> IF "uid" \in DOMAIN lbl[i] THEN lbl[i].uid ELSE fresh]

\* A mutator of the block list acts: F is the mutator with its inputs bound.
Mutate(F(_)) ==
    /\ last.n < MaxOps
    /\ Len(F(blocks)) <= MaxBlocks
    /\ blocks' = F(blocks)
    /\ ids' = Uids(F(Lab(blocks, ids)), last.n + 1)
    /\ UNCHANGED <<length, path, fs, orig, io, rd, iter, sink>>

PushBlock(b) ==
    /\ Mutate(LAMBDA bl : push_block(bl, b))
    /\ last' = [Hist("push_block", b) EXCEPT
                   !.si = IF b.kind = "StreamInfo" THEN b ELSE @,
                   !.pushed = @ \/ b.kind = "Picture"]

SetStreaminfo(s) ==
    /\ Mutate(LAMBDA bl : set_streaminfo(bl, s))
    /\ last' = [Hist("set_streaminfo", s) EXCEPT !.si = s]

RemoveBlocks(bt) ==
    /\ Mutate(LAMBDA bl : remove_blocks(bl, bt))
    /\ last' = Hist("remove_blocks", bt)

VorbisCommentsMut ==
    /\ Mutate(LAMBDA bl : vorbis_comments_mut(bl))
    /\ last' = Hist("vorbis_comments_mut", <<>>)

SetVorbis(key, values) ==
    /\ Mutate(LAMBDA bl : set_vorbis(bl, key, values))
    /\ last' = Hist("set_vorbis", [key |-> key, values |-> values])

RemoveVorbis(key) ==
    /\ Mutate(LAMBDA bl : remove_vorbis(bl, key))
    /\ last' = Hist("remove_vorbis", [key |-> key])

RemoveVorbisPair(key, value) ==
    /\ Mutate(LAMBDA bl : remove_vorbis_pair(bl, key, value))
    /\ last' = Hist("remove_vorbis_pair", [key |-> key, value |-> value])

AddPicture(mime_type, picture_type, data) ==
    /\ Mutate(LAMBDA bl : add_picture(bl, mime_type, picture_type, data))
    /\ last' = Hist("add_picture",
                    [mime_type |-> mime_type, picture_type |-> picture_type,
                     data |-> data])

RemovePictureType(picture_type) ==
    /\ Mutate(LAMBDA bl : remove_picture_type(bl, picture_type))
    /\ last' = Hist("remove_picture_type", [picture_type |-> picture_type])

\* Tag::write_to into a fresh in-memory writer, which io then holds. A block
\* whose serialization panics ends the loop before anything of it is written.
WriteTo(ord, checked) ==
    /\ last.n < MaxOps
    /\ LET bad == {i \in 1..Len(blocks) : Block_write_panics(blocks[i], checked)}
           stop == IF bad = {} THEN Len(blocks)
                   ELSE (CHOOSE i \in bad : \A j \in bad : i <= j) - 1
       IN  /\ io' = [bytes |-> fLaC \o Tag_blocks_bytes(blocks, ord, 1, stop), pos |-> 0]
           /\ length' = Tag_blocks_len(SubSeq(blocks, 1, stop))
           /\ last' = [Hist("write_to", [ord |-> ord, checked |-> checked]) EXCEPT
                          !.res = IF bad = {} THEN "ok" ELSE "panic",
                          !.wrote = [ok |-> bad = {}, blocks |-> blocks]]
    /\ UNCHANGED <<blocks, path, fs, orig, rd, iter, sink, ids>>

\* The effect of Tag::read_from returning r. A stream whose read failed is
\* dropped, not read again.
ReadFromResult(r) ==
    /\ rd' = r
    /\ io' = IF r.ok THEN [io EXCEPT !.pos = r.val.pos] ELSE NoStream
    /\ last' = [Hist("read_from", io.pos) EXCEPT !.res = IF r.ok THEN "ok" ELSE r.err]

\* Tag::read_from on the stream io, from its position
ReadFrom ==
    /\ last.n < MaxOps
    /\ io # NoStream
    /\ ReadFromResult(Tag_read_from(io.bytes, io.pos))
    /\ UNCHANGED <<blocks, length, path, fs, orig, iter, sink, ids>>

\* the effect of Blocks::next giving n; a stream that gave an error is dropped
BlocksNextResult(n) ==
    /\ rd' = n.item
    /\ iter' = n.it
    /\ io' = IF n.item.some /\ ~n.item.res.ok THEN NoStream
             ELSE IF io = NoStream THEN io
             ELSE [io EXCEPT !.pos = n.it.pos]
    /\ last' = [Hist("next", [iter EXCEPT !.pos = io.pos]) EXCEPT
                   !.res = IF ~n.item.some THEN "None"
                           ELSE IF n.item.res.ok THEN "ok" ELSE n.item.res.err]

\* Blocks::next on the iterator over io; a finished iterator reads nothing
BlocksNext ==
    /\ last.n < MaxOps
    /\ io # NoStream \/ (iter.ident_read /\ iter.finished)
    /\ BlocksNextResult(Blocks_next(io.bytes, [iter EXCEPT !.pos = io.pos]))
    /\ UNCHANGED <<blocks, length, path, fs, orig, sink, ids>>

\* the effect of Block::read_from returning r
BlockReadFromResult(r) ==
    /\ rd' = r
    /\ io' = IF r.ok THEN [io EXCEPT !.pos = r.val.pos] ELSE NoStream
    /\ last' = [Hist("block_read_from", io) EXCEPT !.res = IF r.ok THEN "ok" ELSE r.err]

\* Block::read_from on the stream io, from its position
BlockReadFrom ==
    /\ last.n < MaxOps
    /\ io # NoStream
    /\ BlockReadFromResult(Block_read_from(io.bytes, io.pos))
    /\ UNCHANGED <<blocks, length, path, fs, orig, iter, sink, ids>>

\* block.to_bytes() of the block b, as Block::write_to calls it: the bytes are
\* kept in io, a panic of to_bytes in rd
ToBytes(b, ord, checked) ==
    /\ io' = IF Block_write_panics(b, checked) THEN NoStream
             ELSE [bytes |-> Block_contents(b, ord), pos |-> 0]
    /\ rd' = IF Block_write_panics(b, checked) THEN Err("panic") ELSE Err("none")
    /\ last' = [Hist("to_bytes", b) EXCEPT
                    !.res = IF Block_write_panics(b, checked) THEN "panic" ELSE "ok"]
    /\ UNCHANGED <<blocks, length, path, fs, orig, iter, sink, ids>>

\* from_bytes of the block type bt on the bytes of io, as Block::read_from
\* calls it
FromBytes(bt) ==
    /\ io # NoStream
    /\ rd' = Block_from_bytes(bt, 0, Len(io.bytes), io.bytes)
    /\ last' = [Hist("from_bytes", io.bytes) EXCEPT
                    !.res = IF Block_from_bytes(bt, 0, Len(io.bytes), io.bytes).ok
                            THEN "ok"
                            ELSE Block_from_bytes(bt, 0, Len(io.bytes), io.bytes).err]
    /\ UNCHANGED <<blocks, length, path, fs, orig, io, iter, sink, ids>>

IsCandidateResult(c) ==
    /\ rd' = Ok(c.val)
    /\ io' = [io EXCEPT !.pos = c.pos]
    /\ last' = [Hist("is_candidate", io) EXCEPT !.res = "ok"]

\* Tag::is_candidate(reader)
IsCandidate ==
    /\ last.n < MaxOps
    /\ io # NoStream
    /\ \E at_end \in BOOLEAN :
          IsCandidateResult(is_candidate(io.bytes, io.pos, at_end))
    /\ UNCHANGED <<blocks, length, path, fs, orig, iter, sink, ids>>

----------------------------------------------------------------------------
(* Tag and the file system: read_from_path, write_to_path, save.           *)

\* write_all of data into a file opened without truncate, at offset pos
Overwrite(file, pos, data) ==
    SubSeq(file, 1, pos) \o data \o SubSeq(file, pos + Len(data) + 1, Len(file))

\* the padding block of the in-place branch with its size left uncorrected
\* for the header of the padding block
write_in_place_padding_no_header(len, new_length) == Padding(len - new_length)

\* the padding block of the in-place branch of write_to_path
write_in_place_padding(len, new_length) == Padding(len - new_length - 4)

\* the in-place branch once the file is open and read_ident gave id
write_in_place_at(bl, len, new_length, file, ord, id) ==
    IF ~id.ok
    THEN [res |-> id.err, file |-> file, blocks |-> bl, length |-> len]
    ELSE [res |-> "ok",
          file |-> Overwrite(file, id.val,
                       block_bytes(bl, ord)
                       \o Block_write_to(write_in_place_padding(len, new_length), TRUE, ord)),
          blocks |-> push_block(bl, write_in_place_padding(len, new_length)),
          length |-> new_length]

\* the in-place branch of write_to_path: bl are the blocks without padding,
\* len the remembered length, file the content of the tag's path
write_in_place(bl, len, new_length, file, ord) ==
    IF file = NoFile
    THEN [res |-> "Io", file |-> file, blocks |-> bl, length |-> len]
    ELSE write_in_place_at(bl, len, new_length, file, ord, read_ident(file, 0))

\* the rewrite branch of write_to_path once data_opt is known
write_rewrite_with(bl, new_length, ord, data) ==
    [res |-> "ok",
     file |-> fLaC \o block_bytes(bl, ord)
              \o Block_write_to(Padding(padding_size), TRUE, ord) \o data,
     blocks |-> push_block(bl, Padding(padding_size)),
     length |-> new_length + Block_write_len(Padding(padding_size))]

\* the rewrite branch of write_to_path: file is the content of the target
write_rewrite(bl, new_length, file, ord) ==
    write_rewrite_with(bl, new_length, ord,
        IF file = NoFile THEN <<>> ELSE skip_metadata(file))

\* the choice of the branch with the target path not compared
write_in_place_chosen_any_path(own, p, len, new_length) ==
    own # NoPath /\ new_length + 4 <= len

\* the choice of the branch of write_to_path
write_in_place_chosen(own, p, len, new_length) ==
    own # NoPath /\ p = own /\ new_length + 4 <= len

\* Tag::write_to_path once the padding is removed: bl are the blocks left
write_to_path_stripped(bl, len, own, p, file, ord, checked) ==
    IF \E i \in 1..Len(bl) : Block_write_panics(bl[i], checked)
    THEN [res |-> "panic", file |-> file, blocks |-> bl, length |-> len, mode |-> "none",
          new_length |-> 0]
    ELSE IF write_in_place_chosen(own, p, len, Tag_blocks_len(bl))
    THEN write_in_place(bl, len, Tag_blocks_len(bl), file, ord)
             @@ [mode |-> "in_place", new_length |-> Tag_blocks_len(bl)]
    ELSE write_rewrite(bl, Tag_blocks_len(bl), file, ord)
             @@ [mode |-> "rewrite", new_length |-> Tag_blocks_len(bl)]

\* Tag::write_to_path
write_to_path(bl, len, own, p, file, ord, checked) ==
    write_to_path_stripped(remove_blocks(bl, BlockType("Padding")), len, own, p, file,
                           ord, checked)

\* the effect of write_to_path(p) returning w, called as operation op
WriteToPathResult(op, p, w) ==
    /\ Len(w.blocks) <= MaxBlocks
    /\ blocks' = w.blocks
    /\ ids' = Uids(IF Len(w.blocks) > Len(remove_blocks(blocks, BlockType("Padding")))
                   THEN push_block(remove_blocks(Lab(blocks, ids), BlockType("Padding")),
                                   Padding(0))
                   ELSE remove_blocks(Lab(blocks, ids), BlockType("Padding")),
                   last.n + 1)
    /\ fs' = [fs EXCEPT ![p] = w.file]
    /\ length' = w.length
    /\ path' = IF w.res = "ok" THEN p ELSE path
    /\ last' = [Hist(op, p) EXCEPT
                   !.res = w.res, !.mode = w.mode, !.file = fs[p],
                   !.new_length = w.new_length,
                   !.home = IF w.res = "ok" /\ p = last.home.path THEN @
                            ELSE [path |-> NoPath, file |-> NoFile]]
    /\ UNCHANGED <<orig, io, rd, iter, sink>>

\* Tag::write_to_path
WriteToPath(p, ord, checked) ==
    /\ last.n < MaxFileOps
    /\ WriteToPathResult("write_to_path", p,
           write_to_path(blocks, length, path, p, fs[p], ord, checked))

\* Tag::save
Save(ord, checked) ==
    /\ last.n < MaxFileOps
    /\ IF path = NoPath
       THEN /\ last' = [Hist("save", path) EXCEPT !.res = "InvalidInput"]
            /\ UNCHANGED <<blocks, length, path, fs, orig, io, rd, iter, sink, ids>>
       ELSE WriteToPathResult("save", path,
                write_to_path(blocks, length, path, path, fs[path], ord, checked))

\* the steps of write_to_path that do I/O and return its error with `?`
InPlaceFaults == {"open", "read_ident", "blocks", "padding"}

RewriteFaults == {"open", "ident", "blocks", "padding", "data"}

\* the failing write of data with self.length set ahead of it
write_rewrite_failing_data_sets_length(bl, len, file, ord) ==
    [res |-> "Io",
     file |-> fLaC \o block_bytes(bl, ord) \o Block_write_to(Padding(padding_size), TRUE, ord),
     blocks |-> push_block(bl, Padding(padding_size)),
     length |-> Tag_blocks_len(bl) + Block_write_len(Padding(padding_size))]

\* the rewrite branch keeping self.length when the write of data fails: the
\* padding block is pushed by then
write_rewrite_failing_data(bl, len, file, ord) ==
    [res |-> "Io",
     file |-> fLaC \o block_bytes(bl, ord) \o Block_write_to(Padding(padding_size), TRUE, ord),
     blocks |-> push_block(bl, Padding(padding_size)), length |-> len]

\* the in-place branch when its step fault fails: the error is returned ahead
\* of push_block; the file holds what the steps before it wrote
write_in_place_failing(bl, len, file, ord, fault) ==
    [res |-> "Io",
     file |-> IF fault = "padding" /\ file # NoFile /\ read_ident(file, 0).ok
              THEN Overwrite(file, read_ident(file, 0).val, block_bytes(bl, ord))
              ELSE file,
     blocks |-> bl, length |-> len]

\* the rewrite branch when its step fault fails: the file, truncated when
\* opened, holds what the steps before it wrote; the padding block is pushed
\* once it is written, ahead of the write of the old data
write_rewrite_failing(bl, len, file, ord, fault) ==
    CASE fault = "open" -> [res |-> "Io", file |-> file, blocks |-> bl, length |-> len]
      [] fault = "ident" -> [res |-> "Io", file |-> <<>>, blocks |-> bl, length |-> len]
      [] fault = "blocks" -> [res |-> "Io", file |-> fLaC, blocks |-> bl, length |-> len]
      [] fault = "padding" ->
            [res |-> "Io", file |-> fLaC \o block_bytes(bl, ord), blocks |-> bl,
             length |-> len]
      [] fault = "data" -> write_rewrite_failing_data(bl, len, file, ord)

\* Tag::write_to_path with a failure of the I/O step fault of its branch
write_to_path_failing(bl, len, own, p, file, ord, fault) ==
    IF write_in_place_chosen(own, p, len, Tag_blocks_len(bl))
    THEN write_in_place_failing(bl, len, file, ord, fault)
             @@ [mode |-> "in_place", new_length |-> Tag_blocks_len(bl)]
    ELSE write_rewrite_failing(bl, len, file, ord, fault)
             @@ [mode |-> "rewrite", new_length |-> Tag_blocks_len(bl)]

\* Tag::write_to_path(p) while an I/O step of it fails; the write of the old
\* data fails only where there is old data
WriteToPathFailing(p, ord, fault) ==
    /\ last.n < MaxFileOps
    /\ fault \in IF write_in_place_chosen(path, p, length,
                        Tag_blocks_len(remove_blocks(blocks, BlockType("Padding"))))
                 THEN InPlaceFaults ELSE RewriteFaults
    /\ fault = "data" => fs[p] # NoFile
    /\ WriteToPathResult("write_to_path", p,
           write_to_path_failing(remove_blocks(blocks, BlockType("Padding")), length,
                                 path, p, fs[p], ord, fault))

\* the effect of Tag::read_from_path(p) returning r: the tag is the one read
ReadFromPathResult(p, r) ==
    /\ rd' = r
    /\ blocks' = IF r.ok THEN r.val.blocks ELSE blocks
    /\ length' = IF r.ok THEN r.val.length ELSE length
    /\ path' = IF r.ok THEN p ELSE path
    /\ ids' = IF r.ok THEN [i \in 1..Len(r.val.blocks) |-> last.n + 1] ELSE ids
    /\ last' = [Hist("read_from_path", p) EXCEPT
                   !.res = IF r.ok THEN "ok" ELSE r.err, !.file = fs[p],
                   !.home = IF r.ok THEN [path |-> p, file |-> fs[p]] ELSE @]

\* Tag::read_from_path
ReadFromPath(p) ==
    /\ last.n < MaxFileOps
    /\ ReadFromPathResult(p, IF fs[p] = NoFile THEN Err("Io") ELSE Tag_read_from(fs[p], 0))
    /\ UNCHANGED <<fs, orig, io, iter, sink>>

\* a mutator of SpecTag within the operation count of the file system
FileOp(A) == last.n < MaxFileOps /\ A

----------------------------------------------------------------------------
(* Inputs.                                                                 *)

\* "k", "K", "v", "w"
Key_k == <<107>>

Key_K == <<75>>

Val_v == <<118>>

Val_w == <<119>>

\* a stereo 16 bit 44.1 kHz stream
StreamInfoA ==
    [StreamInfo_new EXCEPT !.min_block_size = 4096, !.max_block_size = 4096,
                           !.sample_rate = 44100, !.num_channels = 2,
                           !.bits_per_sample = 16, !.total_samples = u64(0, 1000),
                           !.md5 = Zeroes(16)]

\* a mono 8 bit 8 kHz stream
StreamInfoB ==
    [StreamInfoA EXCEPT !.sample_rate = 8000, !.num_channels = 1,
                        !.bits_per_sample = 8]

\* a picture block built by hand
PictureA ==
    [Picture_new EXCEPT !.picture_type = "CoverFront", !.mime_type = <<97>>,
                        !.width = 1]

\* the iteration orders of a comment map
KeyOrders == {<<Key_K, Key_k>>, <<Key_k, Key_K>>}

\* the blocks handed to push_block
PushSet ==
    {StreamInfoA, StreamInfo_new, Padding(2), Unknown(10, <<1>>), PictureA}

StreamInfoSet == {StreamInfoA, StreamInfoB}

RemoveSet ==
    {BlockType("StreamInfo"), BlockType("Padding"), BlockType("Picture"),
     BlockType("VorbisComment"), UnknownType(10)}

KeySet == {Key_k, Key_K}

ValuesSet == {<<>>, <<Val_v>>, <<Val_v, Val_w>>}

PictureTypeSet == {"Other", "CoverFront"}

DataSet == {<<>>, <<255>>}

----------------------------------------------------------------------------
(* SpecTag: a tag built from Tag::new() by the mutators, written by        *)
(* write_to and read back by read_from.                                    *)

InitTag ==
    /\ blocks = <<>>
    /\ length = 0
    /\ path = NoPath
    /\ fs = [p \in Paths |-> NoFile]
    /\ orig = fs
    /\ io = NoStream
    /\ rd = Err("none")
    /\ iter = Blocks_new(0)
    /\ sink = <<>>
    /\ ids = <<>>
    /\ last = NoHist

NextTag ==
    \/ \E b \in PushSet : PushBlock(b)
    \/ \E s \in StreamInfoSet : SetStreaminfo(s)
    \/ \E bt \in RemoveSet : RemoveBlocks(bt)
    \/ VorbisCommentsMut
    \/ \E key \in KeySet, values \in ValuesSet : SetVorbis(key, values)
    \/ \E key \in KeySet : RemoveVorbis(key)
    \/ \E key \in KeySet, value \in {Val_v} : RemoveVorbisPair(key, value)
    \/ \E pt \in PictureTypeSet, data \in DataSet : AddPicture(<<>>, pt, data)
    \/ \E pt \in PictureTypeSet : RemovePictureType(pt)
    \/ \E ord \in KeyOrders, checked \in BOOLEAN : WriteTo(ord, checked)
    \/ ReadFrom

SpecTag == InitTag /\ [][NextTag]_vars

----------------------------------------------------------------------------
(* Spec: tags read from and written to the files of a file system.         *)

\* the frames after the metadata of the files
AudioA == <<255, 248, 201, 24>>

AudioB == <<255, 249, 1>>

\* the comment block of the files: k=v
VorbisA == VorbisComment_set(VorbisComment_new, Key_k, <<Val_v>>)

\* a file of three blocks, the final one a padding of 4 bytes
FlacFile(audio) ==
    fLaC \o Block_write_to(StreamInfoA, FALSE, <<Key_k>>)
         \o Block_write_to(VorbisA, FALSE, <<Key_k>>)
         \o Block_write_to(Padding(4), TRUE, <<Key_k>>) \o audio

\* an ID3v2.3 tag of two bytes of frames
Id3Prefix == ID3 \o <<3, 0, 0, 0, 0, 0, 2, 0, 0>>

FilesA == {FlacFile(AudioA), Id3Prefix \o FlacFile(AudioA)}

FilesB == {NoFile, FlacFile(AudioB), Id3Prefix \o FlacFile(AudioB)}

Init ==
    /\ blocks = <<>>
    /\ length = 0
    /\ path = NoPath
    /\ fs \in {[p \in Paths |-> IF p = "a" THEN fa ELSE fb] : fa \in FilesA, fb \in FilesB}
    /\ orig = fs
    /\ io = NoStream
    /\ rd = Err("none")
    /\ iter = Blocks_new(0)
    /\ sink = <<>>
    /\ ids = <<>>
    /\ last = NoHist

\* the files hold no block whose encoding overflows, so the build with overflow
\* checks stands for both
Next ==
    \/ \E p \in Paths : ReadFromPath(p)
    \/ \E ord \in KeyOrders : Save(ord, TRUE)
    \/ \E p \in Paths, ord \in KeyOrders : WriteToPath(p, ord, TRUE)
    \/ FileOp(PushBlock(Unknown(10, <<1>>)))
    \/ FileOp(RemoveBlocks(BlockType("VorbisComment")))
    \/ FileOp(SetVorbis(Key_K, <<Val_v, Val_w>>))
    \/ FileOp(RemoveVorbis(Key_k))
    \/ FileOp(AddPicture(<<>>, "Other", <<255>>))
    \/ FileOp(RemovePictureType("Other"))

Spec == Init /\ [][Next]_vars

----------------------------------------------------------------------------
(* SpecFault: write_to_path with I/O steps that fail.                      *)

NextFault ==
    \/ \E p \in Paths : ReadFromPath(p)
    \/ \E p \in Paths : WriteToPath(p, <<Key_K, Key_k>>, TRUE)
    \/ \E p \in Paths, fault \in InPlaceFaults \cup RewriteFaults :
          WriteToPathFailing(p, <<Key_K, Key_k>>, fault)
    \/ FileOp(SetVorbis(Key_K, <<>>))
    \/ FileOp(PushBlock(Padding(2)))

SpecFault == Init /\ [][NextFault]_vars

----------------------------------------------------------------------------
(* SpecSave: read_from_path, mutations, write_to to a writer of its own,   *)
(* and save.                                                               *)

NextSave ==
    \/ \E p \in Paths : ReadFromPath(p)
    \/ Save(<<Key_K, Key_k>>, TRUE)
    \/ FileOp(WriteTo(<<Key_K, Key_k>>, TRUE))
    \/ FileOp(SetVorbis(Key_K, <<Val_v, Val_w>>))
    \/ FileOp(RemoveBlocks(BlockType("VorbisComment")))

SpecSave == Init /\ [][NextSave]_vars

----------------------------------------------------------------------------
(* SpecRead: read_from on streams of encoded blocks.                       *)

\* the comment block of the streams: K=v
VorbisK == VorbisComment_set(VorbisComment_new, Key_K, <<Val_v>>)

\* the blocks of the streams; each is decoded to itself
StreamBlockSet == {StreamInfoA, Padding(2), VorbisK, Unknown(10, <<1>>)}

\* the bytes of the blocks of bl from the i-th on, the is-last flag set on the
\* k-th and on those behind it
RECURSIVE StreamBytes(_, _, _)
StreamBytes(bl, k, i) ==
    IF i > Len(bl) THEN <<>>
    ELSE Block_write_to(bl[i], i >= k, <<Key_K>>) \o StreamBytes(bl, k, i + 1)

\* a stream: a foreign prefix or none, the identifier, the blocks, a tail
Stream(src) == src.prefix \o fLaC \o StreamBytes(src.blocks, src.k, 1) \o src.tail

\* what the streams are made of
StreamSources ==
    UNION {[prefix : {<<>>, Id3Prefix}, blocks : [1..n -> StreamBlockSet], k : 1..n,
            tail : {<<>>, AudioA}] : n \in 1..MaxStreamBlocks}

InitRead ==
    /\ blocks = <<>>
    /\ length = 0
    /\ path = NoPath
    /\ fs = [p \in Paths |-> NoFile]
    /\ orig \in StreamSources
    /\ io = [bytes |-> Stream(orig), pos |-> 0]
    /\ rd = Err("none")
    /\ iter = Blocks_new(0)
    /\ sink = <<>>
    /\ ids = <<>>
    /\ last = NoHist

NextRead == ReadFrom

SpecRead == InitRead /\ [][NextRead]_vars

----------------------------------------------------------------------------
(* SpecVorbis: the comment helpers of a tag built from Tag::new().         *)

\* "a"
Key_a == <<97>>

VorbisKeySet == {Key_k, Key_K, Key_a}

VorbisValuesSet == {<<>>, <<Val_w>>, <<Val_v, Val_w, Val_v>>}

\* blocks pushed by hand: comment blocks, one with a lower-case key, and padding
VorbisPushSet == {VorbisA, VorbisK, Padding(2)}

\* a mutator within the operation count of the comment helpers
VorbisOp(A) == last.n < MaxVorbisOps /\ A

NextVorbis ==
    \/ \E key \in VorbisKeySet, values \in VorbisValuesSet : VorbisOp(SetVorbis(key, values))
    \/ \E key \in VorbisKeySet : VorbisOp(RemoveVorbis(key))
    \/ \E key \in VorbisKeySet, value \in {Val_v, Val_w} :
          VorbisOp(RemoveVorbisPair(key, value))
    \/ VorbisOp(VorbisCommentsMut)
    \/ \E b \in VorbisPushSet : VorbisOp(PushBlock(b))
    \/ VorbisOp(RemoveBlocks(BlockType("VorbisComment")))

SpecVorbis == InitTag /\ [][NextVorbis]_vars

----------------------------------------------------------------------------
(* SpecMalformed: read_from, the Blocks iterator and Block::read_from on   *)
(* streams that are not well-formed.                                       *)

\* streams without the identifier and without the prefix read_ident skips: too
\* short, a wrong letter, an ID3 tag of a version that is not skipped
BadIdentStreams ==
    {<<>>, <<102>>, <<102, 76, 97>>, ID3, <<0, 0, 0, 0>>,
     <<102, 76, 97, 99>> \o Block_write_to(Padding(2), TRUE, <<>>),
     <<88>> \o fLaC \o Block_write_to(Padding(2), TRUE, <<>>),
     ID3 \o <<5, 0, 0, 0, 0, 0, 0>> \o fLaC \o Block_write_to(Padding(2), TRUE, <<>>)}

\* payloads that do not decode, with the type code of their block and the
\* error: a picture of type 21, a picture and a comment block with a byte that
\* is no UTF-8 in a text field
BadBlocks ==
    {[code |-> 6, err |-> "InvalidInput",
      payload |-> to_be_bytes(21, 4) \o SubSeq(Picture_to_bytes(PictureA), 5,
                                               Len(Picture_to_bytes(PictureA)))],
     [code |-> 6, err |-> "StringDecoding",
      payload |-> Picture_to_bytes([PictureA EXCEPT !.mime_type = <<255>>])],
     [code |-> 4, err |-> "StringDecoding",
      payload |-> VorbisComment_to_bytes([VorbisK EXCEPT !.vendor_string = <<255>>],
                                         <<Key_K>>)],
     [code |-> 4, err |-> "StringDecoding",
      payload |-> VorbisComment_to_bytes(
                      VorbisComment_set(VorbisComment_new, Key_K, <<<<200>>>>), <<Key_K>>)]}

\* an application block
ApplicationA == [Application_new EXCEPT !.id = <<65, 66, 67, 68>>, !.data = <<9>>]

\* the blocks of the streams that end early
ShortBlockSet ==
    {StreamInfoA, Padding(2), Unknown(10, <<1, 2>>), ApplicationA, VorbisK, PictureA}

\* the bytes of the blocks of bl, the is-last flag on none
RECURSIVE PlainBytes(_)
PlainBytes(bl) ==
    IF bl = <<>> THEN <<>>
    ELSE Block_write_to(Head(bl), FALSE, <<Key_K>>) \o PlainBytes(Tail(bl))

\* a stream with a block that does not decode behind the blocks of before,
\* followed by a block that does and by audio
BadBlockStream(before, bad, bad_last) ==
    fLaC \o PlainBytes(before)
         \o <<(IF bad_last THEN 128 ELSE 0) + bad.code>>
         \o to_be_bytes(Len(bad.payload), 3) \o bad.payload
         \o Block_write_to(Padding(2), TRUE, <<>>) \o AudioA

\* one block, the last cut bytes of its payload missing
ShortStream(b, is_last, cut) ==
    SubSeq(Block_write_to(b, is_last, <<Key_K>>), 1,
           Len(Block_write_to(b, is_last, <<Key_K>>)) - cut)

MalformedSources ==
    {[cat |-> "ident", bytes |-> bytes] : bytes \in BadIdentStreams}
    \cup
    UNION {{[cat |-> "block", bytes |-> BadBlockStream(before, bad, bad_last),
             before |-> before, err |-> bad.err, bad_last |-> bad_last] :
               before \in [1..n -> {StreamInfoA, Padding(2)}],
               bad \in BadBlocks, bad_last \in BOOLEAN} : n \in 0..2}
    \cup
    {[cat |-> "short", bytes |-> ShortStream(b, is_last, cut), block |-> b,
      cut |-> cut] : b \in ShortBlockSet, is_last \in BOOLEAN, cut \in 0..2}

InitMalformed ==
    /\ blocks = <<>>
    /\ length = 0
    /\ path = NoPath
    /\ fs = [p \in Paths |-> NoFile]
    /\ orig \in MalformedSources
    /\ io = [bytes |-> orig.bytes, pos |-> 0]
    /\ rd = Err("none")
    /\ iter = Blocks_new(0)
    /\ sink = <<>>
    /\ ids = <<>>
    /\ last = NoHist

NextMalformed ==
    \/ ReadFrom
    \/ BlocksNext
    \/ BlockReadFrom
    \/ IsCandidate

SpecMalformed == InitMalformed /\ [][NextMalformed]_vars

----------------------------------------------------------------------------
(* SpecIter: the Blocks iterator alone, on streams of both sorts.          *)

\* the readers handed to Blocks::new
IterSources ==
    {[bytes |-> Stream(src)] : src \in StreamSources}
    \cup {[bytes |-> m.bytes] : m \in MalformedSources}

InitIter ==
    /\ blocks = <<>>
    /\ length = 0
    /\ path = NoPath
    /\ fs = [p \in Paths |-> NoFile]
    /\ orig \in IterSources
    /\ io = [bytes |-> orig.bytes, pos |-> 0]
    /\ rd = Err("none")
    /\ iter = Blocks_new(0)
    /\ sink = <<>>
    /\ ids = <<>>
    /\ last = NoHist

NextIter == BlocksNext

SpecIter == InitIter /\ [][NextIter]_vars

----------------------------------------------------------------------------
(* SpecCodec: to_bytes and from_bytes of the block types.                  *)

\* StreamInfo values at the ends and inside of the ranges of their fields
StreamInfoInputs ==
    {[StreamInfoA EXCEPT !.num_channels = c, !.bits_per_sample = b,
                         !.sample_rate = r, !.total_samples = t,
                         !.min_frame_size = f, !.max_frame_size = LenModulus - 1 - f,
                         !.min_block_size = 65535 - (f % 65536)] :
        c \in {1, 2, 8}, b \in {4, 16, 17, 32}, r \in {0, 44100, 1048575},
        t \in {u64(0, 0), u64(0, 1000), u64(256, 0), u64(4095, LenModulus - 1)},
        f \in {0, LenModulus - 1}}

\* 34-byte payloads: every byte c, but the 13th of the channel bits v
StreamInfoPayloads ==
    {[i \in 1..34 |-> IF i = 13 THEN v ELSE c] : c \in {0, 255}, v \in {0, 14, 15, 241, 255}}

\* tracks of a cue sheet: the one of CueSheetTrack::new(), with indices, with
\* an ISRC of 5, of 12 and of 13 letters
CueSheetTrackInputs ==
    {CueSheetTrack_new,
     [CueSheetTrack_new EXCEPT !.number = 1, !.offset = 588,
          !.indices = <<[offset |-> 0, point_num |-> 0], [offset |-> 300, point_num |-> 1]>>],
     [CueSheetTrack_new EXCEPT !.isrc = [i \in 1..5 |-> 65], !.is_audio = FALSE],
     [CueSheetTrack_new EXCEPT !.isrc = [i \in 1..12 |-> 65], !.pre_emphasis = TRUE,
          !.indices = <<[offset |-> 7, point_num |-> 1]>>],
     [CueSheetTrack_new EXCEPT !.isrc = [i \in 1..13 |-> 65]]}

\* cue sheets: catalog numbers of 0, 13, 128 and 129 letters, up to 2 tracks
CueSheetInputs ==
    {[CueSheet_new EXCEPT !.catalog_num = [i \in 1..n |-> 48], !.is_cd = cd,
                          !.num_leadin = 88200 * n, !.tracks = tracks] :
        n \in {0, 13, 128, 129}, cd \in BOOLEAN,
        tracks \in UNION {[1..k -> CueSheetTrackInputs] : k \in 0..2}}

\* "A=B", a key that holds the separator
Key_eq == <<65, 61, 66>>

\* comment blocks built by VorbisComment::set: one key (upper case, lower
\* case, with '=') with 0, 1 or 2 values, and two upper-case keys
VorbisCommentInputs ==
    {VorbisComment_set([VorbisComment_new EXCEPT !.vendor_string = vendor], key, values) :
        vendor \in {<<>>, <<120, 121>>}, key \in {Key_K, Key_k, Key_eq},
        values \in {<<>>, <<Val_v>>, <<Val_v, Val_w>>, <<Val_w, Val_v, Val_w>>}}
    \cup {VorbisComment_set(VorbisComment_set(VorbisComment_new, Key_K, <<Val_v, Val_w>>),
                             <<65>>, values) : values \in {<<Val_w>>, <<Val_w, Val_v>>}}

\* the inputs: a block to encode and decode again, or a payload to decode
CodecInputs ==
    {[type |-> b.kind, raw |-> FALSE, block |-> b, payload |-> <<>>] :
        b \in StreamInfoInputs \cup CueSheetInputs \cup VorbisCommentInputs}
    \cup {[type |-> "StreamInfo", raw |-> TRUE, block |-> <<>>, payload |-> d] :
        d \in StreamInfoPayloads}

InitCodec ==
    /\ blocks = <<>>
    /\ length = 0
    /\ path = NoPath
    /\ fs = [p \in Paths |-> NoFile]
    /\ orig \in CodecInputs
    /\ io = IF orig.raw THEN [bytes |-> orig.payload, pos |-> 0] ELSE NoStream
    /\ rd = Err("none")
    /\ iter = Blocks_new(0)
    /\ sink = <<>>
    /\ ids = <<>>
    /\ last = NoHist

NextCodec ==
    \/ /\ last.op = "new" /\ ~orig.raw
       /\ \E ord \in KeyOrders, checked \in BOOLEAN : ToBytes(orig.block, ord, checked)
    \/ /\ last.op # "from_bytes"
       /\ FromBytes(BlockType(orig.type))

SpecCodec == InitCodec /\ [][NextCodec]_vars

----------------------------------------------------------------------------
(* SpecWrite: Block::write_to on single blocks, large Padding included.    *)

MaxWrites == 2

\* block.write_to(is_last, writer): the header and the contents go to the
\* writer, the zeroes of a Padding block as their number
BlockWriteTo(b, is_last) ==
    /\ last.n < MaxWrites
    /\ ~Block_write_panics(b, TRUE)
    /\ sink' = Append(sink, [head |-> Block_write_head(b, is_last, <<Key_K>>),
                              zeroes |-> Block_write_zeroes(b)])
    /\ rd' = Ok(Block_write_len(b))
    /\ last' = [Hist("block_write_to", [block |-> b, is_last |-> is_last])
                    EXCEPT !.res = "ok"]
    /\ UNCHANGED <<blocks, length, path, fs, orig, io, iter, ids>>

\* the blocks written: Padding around the largest size the header can hold
WriteBlockSet ==
    {Padding(0), Padding(2), Padding(LenModulus - 1), Padding(LenModulus),
     Padding(LenModulus + 5), StreamInfoA, ApplicationA, Unknown(10, <<1, 2>>),
     VorbisK, PictureA}

NextWrite ==
    \E b \in WriteBlockSet, is_last \in BOOLEAN : BlockWriteTo(b, is_last)

SpecWrite == InitTag /\ [][NextWrite]_vars

----------------------------------------------------------------------------
(* Claims about a tag built from Tag::new() (SpecTag).                     *)

\* the is-last flags of the headers of the blocks bl in the bytes of a stream
\* that holds them one after the other from offset pos
RECURSIVE HeaderFlags(_, _, _)
HeaderFlags(bytes, pos, bl) ==
    IF bl = <<>> THEN <<>>
    ELSE <<pos + 1 <= Len(bytes) /\ bytes[pos + 1] >= 128>>
         \o HeaderFlags(bytes, pos + Block_write_len(Head(bl)), Tail(bl))

\* C5: a tag built by the public mutators and written by write_to is read back
\* by read_from, from the start of the written bytes, without an error and
\* with a block list equal to the one written.
C5_RoundTrip ==
    (last.op = "read_from" /\ last.arg = 0 /\ last.wrote.ok)
        => (rd.ok /\ rd.val.blocks = last.wrote.blocks)

\* C6: whatever the tag, the empty one included, the bytes of a write_to start
\* with the identifier and hold the blocks in list order with the is-last flag
\* on exactly one block, the final one.
C6_OneLastBlock ==
    (last.op = "write_to" /\ last.res = "ok")
        => /\ SubSeq(io.bytes, 1, 4) = fLaC
           /\ Len(io.bytes) = 4 + Tag_blocks_len(blocks)
           /\ LET flags == HeaderFlags(io.bytes, 4, blocks)
              IN  /\ Cardinality({i \in 1..Len(flags) : flags[i]}) = 1
                  /\ flags[Len(flags)]

\* C7: a tag built from Tag::new() holds at most one StreamInfo block, at
\* index 0, and it is the one most recently pushed or set; the other blocks
\* stand in the order of their insertion.
C7_StreamInfoFirst ==
    /\ \A i \in 1..Len(blocks) :
          blocks[i].kind = "StreamInfo" => (i = 1 /\ blocks[i] = last.si)
    /\ \A i, j \in 1..Len(blocks) :
          (i < j /\ blocks[i].kind # "StreamInfo" /\ blocks[j].kind # "StreamInfo")
              => ids[i] < ids[j]

\* C7 witness: a StreamInfo was pushed onto a tag that held another one and
\* two more blocks, which now follow it
C7_Witness ==
    /\ last.op = "push_block" /\ last.arg.kind = "StreamInfo"
    /\ Len(last.pre.blocks) = 3
    /\ last.pre.blocks[1].kind = "StreamInfo" /\ last.pre.blocks[1] # last.arg
    /\ blocks = <<last.arg>> \o Tail(last.pre.blocks)

PicturesOfType(bl, t) ==
    {i \in 1..Len(bl) : bl[i].kind = "Picture" /\ bl[i].picture_type = t}

\* C10: while pictures come from add_picture alone no two Picture blocks share
\* a type; and add_picture(mime, t, data) leaves one picture of type t, the
\* new one, last in the list, behind all other blocks in their old order.
C10_OnePicturePerType ==
    /\ ~last.pushed =>
          \A t \in Range(PictureTypes) : Cardinality(PicturesOfType(blocks, t)) <= 1
    /\ last.op = "add_picture" =>
          /\ PicturesOfType(blocks, last.arg.picture_type) = {Len(blocks)}
          /\ blocks[Len(blocks)] =
                [Picture_new EXCEPT !.mime_type = last.arg.mime_type,
                                    !.picture_type = last.arg.picture_type,
                                    !.data = last.arg.data]
          /\ SubSeq(blocks, 1, Len(blocks) - 1) =
                Retain(last.pre.blocks,
                       (1..Len(last.pre.blocks))
                           \ PicturesOfType(last.pre.blocks, last.arg.picture_type), 1)

\* C10 witness: add_picture replaced a picture of its type in a tag that also
\* held a picture of another type and a block that is no picture
C10_Witness ==
    /\ last.op = "add_picture" /\ ~last.pushed
    /\ PicturesOfType(last.pre.blocks, last.arg.picture_type) # {}
    /\ \E i \in 1..Len(last.pre.blocks) :
          /\ last.pre.blocks[i].kind = "Picture"
          /\ last.pre.blocks[i].picture_type # last.arg.picture_type
    /\ \E i \in 1..Len(last.pre.blocks) : last.pre.blocks[i].kind # "Picture"

----------------------------------------------------------------------------
(* Claims about tags and files (Spec).                                     *)

\* the offset behind the block that carries the is-last flag, for headers
\* walked from offset pos
RECURSIVE MetadataEnd(_, _)
MetadataEnd(bytes, pos) ==
    IF pos + 4 > Len(bytes) THEN Len(bytes)
    ELSE IF bytes[pos + 1] >= 128
    THEN pos + 4 + from_be_bytes(Slice(bytes, pos + 1, 3))
    ELSE MetadataEnd(bytes, pos + 4 + from_be_bytes(Slice(bytes, pos + 1, 3)))

\* the offset of the first block header: behind a foreign prefix and the
\* identifier
MetadataStart(file) ==
    IF read_ident(file, 0).ok THEN read_ident(file, 0).val ELSE 0

\* the size of the metadata region of a file
RegionSize(file) == MetadataEnd(file, MetadataStart(file)) - MetadataStart(file)

\* the bytes of a file behind its metadata region
AudioOf(file) ==
    IF file = NoFile THEN <<>>
    ELSE SubSeq(file, MetadataEnd(file, MetadataStart(file)) + 1, Len(file))

\* the last operation was a save or write_to_path that returned Ok
Wrote == last.op \in {"save", "write_to_path"} /\ last.res = "ok"

\* C1: for a tag read by read_from_path and then mutated and saved to the same
\* path, after every successful save the bytes of the file behind the block
\* with the is-last flag are the audio payload the file had when it was read.
C1_AudioPreserved ==
    (Wrote /\ last.home.path = path) => AudioOf(fs[path]) = AudioOf(last.home.file)

\* C2: after every successful write_to_path, in either mode, the remembered
\* length is the size of the metadata region just written, the regenerated
\* padding block included, and the remembered path is the target.
C2_LengthIsRegion ==
    Wrote => /\ length = Tag_blocks_len(blocks)
             /\ length = RegionSize(fs[path])
             /\ path = last.arg

\* C3: an in-place write_to_path from a tag whose remembered length is the size
\* of the file's metadata region writes the N bytes of the blocks and one
\* is-last Padding block of size (length - N - 4), without underflow; the size
\* of the region and every byte outside it are unchanged.
C3_InPlaceFrame ==
    (Wrote /\ last.mode = "in_place" /\ last.pre.length = RegionSize(last.file))
        => /\ last.pre.length - last.new_length - 4 >= 0
           /\ blocks[Len(blocks)] = Padding(last.pre.length - last.new_length - 4)
           /\ last.new_length = Tag_blocks_len(SubSeq(blocks, 1, Len(blocks) - 1))
           /\ \E ord \in KeyOrders :
                 SubSeq(fs[path], MetadataStart(last.file) + 1,
                        MetadataStart(last.file) + last.pre.length)
                     = block_bytes(SubSeq(blocks, 1, Len(blocks) - 1), ord)
                       \o Block_write_to(blocks[Len(blocks)], TRUE, ord)
           /\ RegionSize(fs[path]) = last.pre.length
           /\ Len(fs[path]) = Len(last.file)
           /\ SubSeq(fs[path], 1, MetadataStart(last.file))
                 = SubSeq(last.file, 1, MetadataStart(last.file))
           /\ AudioOf(fs[path]) = AudioOf(last.file)

\* C3 witness: an in-place write into a file with a foreign prefix whose tag
\* lost a block since it was read, so that the padding grew
C3_Witness ==
    /\ Wrote /\ last.mode = "in_place" /\ last.pre.length = RegionSize(last.file)
    /\ MetadataStart(last.file) > 4
    /\ blocks[Len(blocks)].size > 4
    /\ AudioOf(last.file) # <<>>

\* C4: in rewrite mode, whatever the target held, the file written is the
\* identifier, the non-Padding blocks in order with is-last clear, one Padding
\* block of 1024 bytes with is-last set, then the post-metadata bytes of the
\* file the target held before (nothing if it held none).
C4_RewriteLayout ==
    (Wrote /\ last.mode = "rewrite")
        => /\ blocks[Len(blocks)] = Padding(1024)
           /\ \A i \in 1..(Len(blocks) - 1) : blocks[i].kind # "Padding"
           /\ \E ord \in KeyOrders :
                 fs[path] = fLaC \o block_bytes(SubSeq(blocks, 1, Len(blocks) - 1), ord)
                                 \o Block_write_to(Padding(1024), TRUE, ord)
                                 \o AudioOf(last.file)

\* the last operation was a save or write_to_path that went as far as the
\* choice of its mode
WriteCalled == last.op \in {"save", "write_to_path"} /\ last.mode # "none"

\* C25: write_to_path works in place if and only if the tag remembers a path,
\* the target is that path and the encoded size of the blocks that are no
\* Padding, plus 4, is at most the remembered length; in every other case it
\* rewrites; Padding blocks of the tag do not count for the new size.
C25_ModeChoice ==
    WriteCalled =>
        /\ last.mode \in {"in_place", "rewrite"}
        /\ last.new_length
              = Tag_blocks_len(SelectSeq(last.pre.blocks, LAMBDA b : b.kind # "Padding"))
        /\ last.mode = "in_place"
              <=> /\ last.pre.path # NoPath
                  /\ last.pre.path = last.arg
                  /\ last.new_length + 4 <= last.pre.length

\* C25 witness: a write to the remembered path, the tag holding a Padding
\* block, that rewrote the file for want of room
C25_Witness ==
    /\ Wrote /\ last.mode = "rewrite"
    /\ last.pre.path = last.arg
    /\ \E i \in 1..Len(last.pre.blocks) : last.pre.blocks[i].kind = "Padding"
    /\ last.new_length <= last.pre.length

\* C27: when write_to_path returns an error, the remembered length and path
\* are those from before the call, and the block list is the list from before
\* the call with its Padding blocks removed, followed or not by one Padding
\* block pushed by the call.
C27_ErrorKeepsLengthAndPath ==
    (WriteCalled /\ last.res \notin {"ok", "panic"}) =>
        /\ length = last.pre.length
        /\ path = last.pre.path
        /\ \/ blocks = SelectSeq(last.pre.blocks, LAMBDA b : b.kind # "Padding")
           \/ /\ blocks # <<>>
              /\ blocks[Len(blocks)].kind = "Padding"
              /\ SubSeq(blocks, 1, Len(blocks) - 1)
                    = SelectSeq(last.pre.blocks, LAMBDA b : b.kind # "Padding")

\* C27 witness: a write that failed after it had pushed its Padding block,
\* from a tag that held a Padding block in the middle of its list
C27_Witness ==
    /\ WriteCalled /\ last.res = "Io"
    /\ Len(blocks) >= 2
    /\ blocks[Len(blocks)] = Padding(padding_size)
    /\ \E i \in 1..(Len(last.pre.blocks) - 1) : last.pre.blocks[i].kind = "Padding"
    /\ length = last.pre.length /\ length # Tag_blocks_len(blocks)

\* C28: after every successful write_to_path, whatever Padding blocks the tag
\* held before, the block list holds one Padding block, as its last element,
\* and the metadata region of the file is the encoding of the blocks of the
\* list in order, the Padding block with its size and the is-last flag at the
\* end.
C28_ListIsFile ==
    Wrote =>
        /\ blocks # <<>>
        /\ \A i \in 1..Len(blocks) : blocks[i].kind = "Padding" <=> i = Len(blocks)
        /\ \E ord \in KeyOrders :
              SubSeq(fs[path], MetadataStart(fs[path]) + 1,
                     MetadataEnd(fs[path], MetadataStart(fs[path])))
                  = block_bytes(SubSeq(blocks, 1, Len(blocks) - 1), ord)
                    \o Block_write_to(blocks[Len(blocks)], TRUE, ord)

\* C28 witness: a write in place from a tag that held two Padding blocks, one
\* of them ahead of another block
C28_Witness ==
    /\ Wrote /\ last.mode = "in_place"
    /\ \E i, j, k \in 1..Len(last.pre.blocks) :
          /\ i < j /\ i # k /\ j # k
          /\ last.pre.blocks[i].kind = "Padding"
          /\ last.pre.blocks[j].kind # "Padding"
          /\ last.pre.blocks[k].kind = "Padding"

\* C29: an in-place write never writes past the metadata region the file
\* holds: whatever read_from_path, mutations, write_to calls to another writer
\* and saves went before, the bytes it writes (the blocks and the Padding
\* block, the remembered length in all) are no more than the metadata region
\* of the file, and every byte of the file behind that region is left as it
\* was.
C29_InPlaceWritesRegion ==
    (Wrote /\ last.mode = "in_place")
        => /\ last.pre.length <= RegionSize(last.file)
           /\ Len(fs[path]) = Len(last.file)
           /\ \A i \in (MetadataEnd(last.file, MetadataStart(last.file)) + 1)..Len(last.file) :
                 fs[path][i] = last.file[i]

----------------------------------------------------------------------------
(* Claims about read_from (SpecRead).                                      *)

\* C8: every tag read_from returns, whatever the order of the blocks in the
\* stream, holds at most one StreamInfo block, and holds it at index 0.
C8_ReadStreamInfoFirst ==
    (last.op = "read_from" /\ rd.ok)
        => \A i \in 1..Len(rd.val.blocks) :
              rd.val.blocks[i].kind = "StreamInfo" => i = 1

\* C9: read_from on a well-formed stream returns the blocks of the stream in
\* order up to and including the first with the is-last flag; the remembered
\* length is the sum of (payload length + 4) over them, the identifier and a
\* foreign prefix not counted; the reader stands behind the is-last block.
C9_ReadFrom ==
    (last.op = "read_from" /\ last.arg = 0)
        => /\ rd.ok
           /\ rd.val.blocks = SubSeq(orig.blocks, 1, orig.k)
           /\ rd.val.length = Tag_blocks_len(SubSeq(orig.blocks, 1, orig.k))
           /\ io.pos = Len(orig.prefix) + 4 + Tag_blocks_len(SubSeq(orig.blocks, 1, orig.k))

\* C9 witness: a stream with a foreign prefix was read whose is-last flag is
\* on the second of three blocks, with audio behind them
C9_Witness ==
    /\ last.op = "read_from" /\ last.arg = 0 /\ rd.ok
    /\ orig.prefix # <<>> /\ orig.tail # <<>>
    /\ orig.k = 2 /\ Len(orig.blocks) = 3
    /\ Len(rd.val.blocks) = 2

----------------------------------------------------------------------------
(* Claims about the comment helpers (SpecVorbis).                          *)

\* two keys are equal after ASCII upper-casing: the letters of the keys of the
\* model differ by 32
SameKey(k1, k2) ==
    /\ Len(k1) = Len(k2)
    /\ \A i \in 1..Len(k1) : k1[i] = k2[i] \/ k1[i] = k2[i] + 32 \/ k2[i] = k1[i] + 32

\* the comment map the helpers work on: that of the first VorbisComment block
FirstComments(bl) ==
    IF \E i \in 1..Len(bl) : bl[i].kind = "VorbisComment"
    THEN bl[CHOOSE i \in 1..Len(bl) :
                /\ bl[i].kind = "VorbisComment"
                /\ \A j \in 1..(i - 1) : bl[j].kind # "VorbisComment"].comments
    ELSE <<>>

\* the keys of the map other than the upper-cased key hold what they held
\* before the operation
OtherKeysKept(key) ==
    \A k \in (DOMAIN FirstComments(blocks)) \cup (DOMAIN FirstComments(last.pre.blocks)) :
        k # to_ascii_uppercase(key)
            => /\ k \in DOMAIN FirstComments(blocks)
               /\ k \in DOMAIN FirstComments(last.pre.blocks)
               /\ FirstComments(blocks)[k] = FirstComments(last.pre.blocks)[k]

\* C11: keys are case-insensitive through the Tag helpers: after
\* set_vorbis(k1, vs), get_vorbis(k2) is vs for every k2 equal to k1 after
\* upper-casing, and after remove_vorbis(k2), get_vorbis(k1) is None.
C11_CaseInsensitive ==
    /\ last.op = "set_vorbis" =>
          \A k2 \in VorbisKeySet :
              SameKey(last.arg.key, k2) => get_vorbis(blocks, k2) = Ok(last.arg.values)
    /\ last.op = "remove_vorbis" =>
          \A k1 \in VorbisKeySet :
              SameKey(last.arg.key, k1) => get_vorbis(blocks, k1) = Err("None")

\* C11 witness: remove_vorbis("K") took away values that get_vorbis("k") gave
C11_Witness ==
    /\ last.op = "remove_vorbis" /\ last.arg.key = Key_K
    /\ get_vorbis(last.pre.blocks, Key_k).ok
    /\ get_vorbis(last.pre.blocks, Key_k).val # <<>>
    /\ ~get_vorbis(blocks, Key_k).ok

\* C12: set_vorbis(key, values) replaces the values of the key, so that
\* get_vorbis(key) is values in their order, and remove_vorbis(key) deletes the
\* key; both leave every other key with its values.
C12_SetReplaces ==
    /\ last.op = "set_vorbis" =>
          /\ get_vorbis(blocks, last.arg.key) = Ok(last.arg.values)
          /\ OtherKeysKept(last.arg.key)
    /\ last.op = "remove_vorbis" =>
          /\ get_vorbis(blocks, last.arg.key) = Err("None")
          /\ OtherKeysKept(last.arg.key)

\* C12 witness: set_vorbis gave a key that held other values a shorter list,
\* next to another key
C12_Witness ==
    /\ last.op = "set_vorbis" /\ last.arg.values = <<Val_w>>
    /\ get_vorbis(last.pre.blocks, last.arg.key) = Ok(<<Val_v, Val_w, Val_v>>)
    /\ \E k \in VorbisKeySet :
          ~SameKey(k, last.arg.key) /\ get_vorbis(blocks, k).ok

\* the values the key has in the map the helpers work on, none if it has no
\* such key
ValuesOf(bl, key) ==
    IF to_ascii_uppercase(key) \in DOMAIN FirstComments(bl)
    THEN FirstComments(bl)[to_ascii_uppercase(key)]
    ELSE <<>>

\* C13 as stated: remove_vorbis_pair(key, value) deletes one value equal to
\* value from the list of the key, also when the list holds it more than once.
C13_RemovesOneValue ==
    (last.op = "remove_vorbis_pair"
     /\ last.arg.value \in Range(ValuesOf(last.pre.blocks, last.arg.key)))
        => Len(ValuesOf(blocks, last.arg.key))
              = Len(ValuesOf(last.pre.blocks, last.arg.key)) - 1

\* C13 amended: remove_vorbis_pair(key, value) deletes every value equal to
\* value from the list of the key and keeps the other values in their order;
\* the key is in the map afterwards exactly when values are left, and then
\* get_vorbis returns them; every other key keeps its values.
C13_RemovesEveryValue ==
    last.op = "remove_vorbis_pair" =>
        /\ ValuesOf(blocks, last.arg.key)
              = SelectSeq(ValuesOf(last.pre.blocks, last.arg.key),
                          LAMBDA x : x # last.arg.value)
        /\ to_ascii_uppercase(last.arg.key) \in DOMAIN FirstComments(blocks)
              <=> ValuesOf(blocks, last.arg.key) # <<>>
        /\ ValuesOf(blocks, last.arg.key) # <<>>
              => get_vorbis(blocks, last.arg.key) = Ok(ValuesOf(blocks, last.arg.key))
        /\ OtherKeysKept(last.arg.key)

\* C13 witness: the list v, w, v lost both v and kept w
C13_Witness ==
    /\ last.op = "remove_vorbis_pair" /\ last.arg.value = Val_v
    /\ ValuesOf(last.pre.blocks, last.arg.key) = <<Val_v, Val_w, Val_v>>
    /\ get_vorbis(blocks, last.arg.key) = Ok(<<Val_w>>)

\* the first VorbisComment block of bl is its i-th block
IsFirstVorbis(bl, i) ==
    /\ i \in 1..Len(bl)
    /\ bl[i].kind = "VorbisComment"
    /\ \A j \in 1..(i - 1) : bl[j].kind # "VorbisComment"

\* C14: vorbis_comments_mut finds or creates: with a VorbisComment block in the
\* tag the block list is unchanged, without one a single empty VorbisComment
\* block is appended behind the unchanged blocks; and set_vorbis,
\* remove_vorbis and get_vorbis work on the first VorbisComment block alone.
C14_FindOrCreate ==
    /\ last.op = "vorbis_comments_mut" =>
          IF \E i \in 1..Len(last.pre.blocks) : last.pre.blocks[i].kind = "VorbisComment"
          THEN blocks = last.pre.blocks
          ELSE blocks = Append(last.pre.blocks, VorbisComment_new)
    /\ last.op \in {"set_vorbis", "remove_vorbis"} =>
          \E f \in 1..Len(blocks) :
              /\ IsFirstVorbis(blocks, f)
              /\ IF \E i \in 1..Len(last.pre.blocks) :
                        last.pre.blocks[i].kind = "VorbisComment"
                 THEN IsFirstVorbis(last.pre.blocks, f) /\ Len(blocks) = Len(last.pre.blocks)
                 ELSE f = Len(blocks) /\ Len(blocks) = Len(last.pre.blocks) + 1
              /\ \A i \in 1..Len(last.pre.blocks) : i # f => blocks[i] = last.pre.blocks[i]
              /\ blocks[f].vendor_string
                    = IF f <= Len(last.pre.blocks) THEN last.pre.blocks[f].vendor_string
                      ELSE <<>>
              /\ \A k \in VorbisKeySet :
                    get_vorbis(blocks, k)
                        = IF to_ascii_uppercase(k) \in DOMAIN blocks[f].comments
                          THEN Ok(blocks[f].comments[to_ascii_uppercase(k)])
                          ELSE Err("None")

\* C14 witness: set_vorbis changed the first of two VorbisComment blocks and
\* left the second, which holds other comments
C14_Witness ==
    /\ last.op = "set_vorbis"
    /\ \E f, g \in 1..Len(blocks) :
          /\ f < g
          /\ IsFirstVorbis(blocks, f)
          /\ blocks[g].kind = "VorbisComment"
          /\ blocks[g] # blocks[f]
          /\ blocks[f] # last.pre.blocks[f]
          /\ blocks[g].comments # <<>>

\* C30: remove_vorbis and remove_vorbis_pair on a tag without a VorbisComment
\* block append one empty VorbisComment block (one block more, and
\* vorbis_comments() finds a block); on a tag with a VorbisComment block they
\* leave the number and the order of the blocks as they were.
C30_RemoveCreates ==
    last.op \in {"remove_vorbis", "remove_vorbis_pair"} =>
        IF vorbis_index(last.pre.blocks) = 0
        THEN /\ blocks = Append(last.pre.blocks, VorbisComment_new)
             /\ vorbis_index(blocks) = Len(blocks)
        ELSE /\ Len(blocks) = Len(last.pre.blocks)
             /\ vorbis_index(blocks) = vorbis_index(last.pre.blocks)
             /\ \A i \in 1..Len(blocks) :
                    /\ blocks[i].kind = last.pre.blocks[i].kind
                    /\ i # vorbis_index(blocks) => blocks[i] = last.pre.blocks[i]

\* C30 witness: remove_vorbis_pair on a tag that held one block, no
\* VorbisComment block, left two blocks
C30_Witness ==
    /\ last.op = "remove_vorbis_pair"
    /\ Len(last.pre.blocks) = 1
    /\ vorbis_index(last.pre.blocks) = 0
    /\ Len(blocks) = 2
    /\ blocks[2] = VorbisComment_new

----------------------------------------------------------------------------
(* Further claims about a tag built from Tag::new() (SpecTag).             *)

\* C15: remove_blocks(t) removes every block of type t and nothing else:
\* get_blocks(t) is empty afterwards and the blocks left are the previous
\* blocks of other types in their previous order.
C15_RemoveBlocksFrame ==
    last.op = "remove_blocks" =>
        /\ get_blocks(blocks, last.arg) = <<>>
        /\ \A i \in 1..Len(blocks) : block_type(blocks[i]) # last.arg
        /\ blocks = Retain(last.pre.blocks,
                           {i \in 1..Len(last.pre.blocks) :
                               block_type(last.pre.blocks[i]) # last.arg}, 1)

\* C15 witness: remove_blocks took two blocks of its type from around a block
\* of another type
C15_Witness ==
    /\ last.op = "remove_blocks"
    /\ Len(last.pre.blocks) = 3 /\ Len(blocks) = 1
    /\ block_type(last.pre.blocks[1]) = last.arg
    /\ block_type(last.pre.blocks[3]) = last.arg
    /\ blocks = <<last.pre.blocks[2]>>

----------------------------------------------------------------------------
(* Further claims about tags and files (Spec).                             *)

\* C16: save fails with an invalid-input error, touching no file and leaving
\* blocks, length and path as they were, on every tag that read_from_path did
\* not produce, whatever was done to the tag before, write_to_path included.
C16_SaveNeedsRead ==
    (last.op = "save" /\ rd = Err("none"))
        => /\ last.res = "InvalidInput"
           /\ fs = orig
           /\ blocks = last.pre.blocks
           /\ length = last.pre.length
           /\ path = last.pre.path

----------------------------------------------------------------------------
(* Claims about streams that are not well-formed (SpecMalformed).          *)

\* on a stream without identifier read_from fails with an error of the kind;
\* the iterator yields that error first, is finished then, and yields nothing
\* more
IdentError(kind) ==
    orig.cat = "ident" =>
        /\ (last.op = "read_from" /\ last.arg = 0) => rd = Err(kind)
        /\ (last.op = "next" /\ ~last.arg.ident_read /\ last.arg.pos = 0)
              => rd = Item(Err(kind)) /\ iter.ident_read /\ iter.finished
        /\ (last.op = "next" /\ last.arg.ident_read) => rd = NoItem /\ iter.finished

\* C17 as stated: on every stream that does not start with the identifier and
\* has no recognized foreign prefix, the streams shorter than 4 bytes
\* included, read_from fails with invalid-input, and the iterator yields that
\* error as its only item and is finished.
C17_InvalidInputAlways == IdentError("InvalidInput")

\* C17 amended: on such a stream of 4 bytes or more read_from fails with
\* invalid-input, on a shorter one with an I/O error; the iterator yields that
\* error as its only item and is finished.
C17_InvalidInputOrIo ==
    IdentError(IF Len(orig.bytes) < 4 THEN "Io" ELSE "InvalidInput")

\* C17 witness: the iterator over a stream of a wrong identifier gave nothing
\* at its second call
C17_Witness ==
    /\ orig.cat = "ident" /\ Len(orig.bytes) > 4
    /\ last.op = "next" /\ last.arg.ident_read /\ last.n = 2
    /\ rd = NoItem /\ iter.finished

\* C18: a block that does not decode aborts the read: read_from returns the
\* error of the block (invalid-input for a picture type outside 0..20, string
\* decoding for a text that is no UTF-8), no tag of the blocks before it, and
\* does not go on behind the block.
C18_BadBlockAborts ==
    (orig.cat = "block" /\ last.op = "read_from" /\ last.arg = 0)
        => /\ rd = Err(orig.err)
           /\ io = NoStream

\* C18 witness: the block that failed stood behind two good blocks and did not
\* carry the is-last flag
C18_Witness ==
    /\ orig.cat = "block" /\ last.op = "read_from" /\ last.arg = 0
    /\ Len(orig.before) = 2 /\ ~orig.bad_last
    /\ rd = Err("StringDecoding")

\* C19: Block::read_from reads the payload bytes the header declares; when the
\* stream ends before them it returns an I/O error, whatever the block type.
C19_ShortPayloadIsError ==
    (orig.cat = "short" /\ last.op = "block_read_from" /\ last.arg.pos = 0)
        => IF orig.cut = 0
           THEN /\ rd.ok
                /\ rd.val.block = orig.block
                /\ rd.val.length = Len(orig.bytes)
                /\ io.pos = Len(orig.bytes)
           ELSE rd = Err("Io")

\* C21: Tag::is_candidate returns true exactly when the next 4 bytes of the
\* reader are the identifier, and in every outcome, fewer than 4 bytes left in
\* the reader included, the reader is afterwards at the position it had before.
C21_CandidateKeepsPosition ==
    last.op = "is_candidate" =>
        /\ rd = Ok(/\ last.arg.pos + 4 <= Len(last.arg.bytes)
                    /\ SubSeq(last.arg.bytes, last.arg.pos + 1, last.arg.pos + 4) = fLaC)
        /\ io = last.arg

----------------------------------------------------------------------------
(* Claims about to_bytes and from_bytes (SpecCodec).                       *)

\* the input was encoded and the bytes decoded
RoundTripped(type) ==
    /\ orig.type = type /\ ~orig.raw
    /\ last.op = "from_bytes" /\ last.n = 2

\* C22: for a StreamInfo with num_channels in 1..8, bits_per_sample in 4..32,
\* sample_rate < 2^20, total_samples < 2^36, frame sizes < 2^24 and a 16-byte
\* md5, to_bytes yields 34 bytes with num_channels - 1 in the 3-bit field and
\* bits_per_sample - 1 in the 5-bit field, and from_bytes gives the value
\* back; from_bytes of any 34-byte payload yields num_channels in 1..8.
C22_StreamInfoRoundTrip ==
    /\ (orig.type = "StreamInfo" /\ ~orig.raw /\ last.op = "to_bytes") =>
          /\ Len(io.bytes) = 34
          /\ (io.bytes[13] \div 2) % 8 = orig.block.num_channels - 1
          /\ (io.bytes[13] % 2) * 16 + (io.bytes[14] \div 16)
                = orig.block.bits_per_sample - 1
    /\ RoundTripped("StreamInfo") => rd = Ok(orig.block)
    /\ (orig.type = "StreamInfo" /\ orig.raw /\ last.op = "from_bytes") =>
          rd.ok /\ rd.val.num_channels \in 1..8

\* C22 witness: a StreamInfo of 8 channels, 32 bits, total_samples 2^36 - 1
\* and sample_rate 2^20 - 1 came back from its bytes
C22_Witness ==
    /\ RoundTripped("StreamInfo")
    /\ rd.ok
    /\ rd.val.num_channels = 8 /\ rd.val.bits_per_sample = 32
    /\ rd.val.total_samples = u64(4095, LenModulus - 1)
    /\ rd.val.sample_rate = 1048575

\* C23: for a CueSheet with a catalog_num of at most 128 bytes and ISRCs of at
\* most 12 bytes (the empty strings of CueSheet::new() and
\* CueSheetTrack::new() included), from_bytes(to_bytes(x)) is x; to_bytes
\* panics when the catalog number is longer than 128 bytes or an ISRC longer
\* than 12 bytes.
C23_CueSheetRoundTrip ==
    /\ RoundTripped("CueSheet") => rd = Ok(orig.block)
    /\ (orig.type = "CueSheet" /\ last.op = "to_bytes") =>
          (last.res = "panic"
              <=> \/ Len(orig.block.catalog_num) > 128
                  \/ \E k \in 1..Len(orig.block.tracks) :
                         Len(orig.block.tracks[k].isrc) > 12)

\* the number of values of the comment map m
RECURSIVE NumValues(_)
NumValues(m) ==
    IF DOMAIN m = {} THEN 0
    ELSE LET k == CHOOSE x \in DOMAIN m : TRUE
         IN  Len(m[k]) + NumValues([x \in (DOMAIN m) \ {k} |-> m[x]])

\* C24: for every VorbisComment built with VorbisComment::set (any key:
\* lower case, holding '=', set to an empty list of values),
\* from_bytes(to_bytes(x)) is x, each key keeping its values in order, and the
\* comment count in the bytes is the total number of values.
C24_VorbisRoundTrip ==
    /\ RoundTripped("VorbisComment") => rd = Ok(orig.block)
    /\ (orig.type = "VorbisComment" /\ last.op = "to_bytes") =>
          from_le_bytes(Slice(io.bytes, 4 + Len(orig.block.vendor_string), 4))
              = NumValues(orig.block.comments)

----------------------------------------------------------------------------
(* Claims about the Blocks iterator (SpecIter).                            *)

\* C26: the iterator goes one way, NotStarted -> InProgress -> Finished: the
\* identifier is read at the first next() and never again (a later next()
\* yields the block at the reader's position); once next() has yielded a block
\* with the is-last flag or an Err the iterator is finished, and a finished
\* iterator stays finished, yields None and reads no byte; so an Err is the
\* last item and at most one is yielded.
C26_OneWay ==
    [][last'.op = "next" =>
          /\ iter'.ident_read
          /\ (iter.ident_read /\ ~iter.finished)
                => rd' = Item(Block_read_from(io.bytes, io.pos))
          /\ iter.finished => (iter'.finished /\ rd' = NoItem /\ io' = io)
          /\ (rd'.some /\ ~rd'.res.ok) => iter'.finished
          /\ (rd'.some /\ rd'.res.ok) => (iter'.finished <=> rd'.res.val.is_last)
    ]_vars

\* C26 witness: after two blocks, the second with the is-last flag, with bytes
\* left in the reader, next() gave None
C26_Witness ==
    /\ last.op = "next" /\ last.n = 3
    /\ last.arg.finished
    /\ rd = NoItem
    /\ io # NoStream /\ io.pos < Len(io.bytes)

----------------------------------------------------------------------------
(* Claims about Block::write_to (SpecWrite).                               *)

\* C20: Block::write_to never emits a block whose 24-bit header length differs
\* from the number of payload bytes written (contents above 2^24 - 1 bytes are
\* not written with a length taken modulo 2^24), and the count it returns is
\* the number of bytes written.
C20_HeaderLengthIsPayload ==
    (last.op = "block_write_to" /\ rd.ok)
        => /\ from_be_bytes(SubSeq(sink[Len(sink)].head, 2, 4))
                = Len(sink[Len(sink)].head) - 4 + sink[Len(sink)].zeroes
           /\ rd.val = Len(sink[Len(sink)].head) + sink[Len(sink)].zeroes

====
